---- MODULE Spec2Model ----
(***************************************************************************)
(* A model of rift: copy-on-write branches over one upstream PostgreSQL.   *)
(*                                                                         *)
(* Eleven specifications share the module:                                 *)
(*   SpecBranch   branch lifecycle (file-backed Manager, and the           *)
(*                StorageBackedManager / Engine over the _rift metadata)   *)
(*   SpecCow      branch query traffic: Engine.ProcessQuery, the rewriter  *)
(*                and the execution of the rewritten SQL on the upstream   *)
(*   SpecMerge    Engine.Diff, Engine.GenerateMerge and the execution of   *)
(*                the generated merge, for any source and shadow contents  *)
(*   SpecSession  the per-connection session: transaction status, the      *)
(*                simple and the extended query protocol                   *)
(*   SpecProxy    the listener: the accept loop, one task per connection   *)
(*                (handshake, on_connect, upstream connection, splice)     *)
(*                and Stop                                                 *)
(*   SpecMigrate  PgStore.Init: the metadata migrations, across restarts   *)
(*                and releases, one initialization at a time               *)
(*   SpecRace     Engine.CreateBranch and Engine.DeleteBranch running at   *)
(*                the same time, statement by statement                    *)
(*   SpecEnsure   EnsureOverlayTable run by two sessions at the same time  *)
(*   SpecProxyLive  SpecProxy with the progress of its goroutines          *)
(*   SpecSplice   proxyTraffic: the two copy loops of one connection       *)
(*   SpecBind     handleBind reading the bytes of a Bind payload           *)
(* Identifiers are sequences of one-character strings, so that the         *)
(* conversions on names (sanitizeBranchName, ValidateBranchName) are       *)
(* computed as the code computes them.                                     *)
(***************************************************************************)
EXTENDS Integers, Sequences, FiniteSets, TLC

VARIABLES
    impl,       \* which branch manager the process runs: "file" or "store"
    branches,   \* branch name -> [parent, pinned, ttl, created]
    schemas,    \* names of the overlay schemas that exist on the upstream
    now,        \* the clock, in ticks
    err,        \* outcome of the last lifecycle operation
    source,     \* rows of the source table public.users
    overlay,    \* overlay schema -> its shadow table of users
    tracked,    \* branches with a _rift.tracked_tables row for users
    pkCache,    \* tables with rows in the primary-key cache of the store
    result,     \* the reply to the last query
    diff,       \* the outcome of the last Engine.Diff
    merge,      \* the last generated merge and how far it has been executed
    migrate,    \* _rift.schema_version and the run of PgStore.Init
    tasks,      \* the calls followed step by step, each at its place
    catalog,    \* the shadow tables those calls build, as the upstream has them
    txStatus,   \* Session.txStatus: "I", "T" or "E"
    tx,         \* Session.tx # nil
    upstreamTx, \* upstream transactions live on behalf of the session
    stmts,      \* Session.ext.stmts: statement name -> prepared statement
    portals,    \* Session.ext.portals: portal name -> bound statement
    extErr,     \* Session.extErr # nil
    out,        \* messages written to the client by the last handler
    running,    \* Session.HandleMessages has not returned
    listener,   \* Proxy.listener: "open" or "closed"
    acceptPc,   \* where acceptLoop is: "accept", "check" or "done"
    accepted,   \* the connection Accept returned to acceptLoop, 0 if none
    conns,      \* connection -> [pc, client, upstream, database, sent, onConnect]
    connCount,  \* Proxy.connCount
    wg,         \* Proxy.wg, the count of the wait group
    connections,\* Proxy.connections: the connections stored as sessions
    stopPc      \* where Stop is: "idle", "closing", "waiting" or "returned"

branchVars == <<impl, branches, schemas, now, err>>
cowVars == <<source, overlay, tracked, pkCache, result, diff, merge>>
sessVars == <<txStatus, tx, upstreamTx, stmts, portals, extErr, out, running>>
proxyVars == <<listener, acceptPc, accepted, conns, connCount, wg, connections, stopPc>>
storeVars == <<migrate>>
taskVars == <<tasks, catalog>>

vars == <<impl, branches, schemas, now, err, source, overlay, tracked, pkCache, result,
          diff, merge, migrate, tasks, catalog,
          txStatus, tx, upstreamTx, stmts, portals, extErr, out, running,
          listener, acceptPc, accepted, conns, connCount, wg, connections, stopPc>>

(***************************************************************************)
(* Bounds                                                                  *)
(***************************************************************************)
MaxTime == 2        \* last tick of the clock
NumClients == 2     \* connections that arrive at the listener
MaxConnections == 1 \* Config.MaxConnections
MaxMigrations == 4  \* migration files the newest release embeds

(***************************************************************************)
(* Names                                                                   *)
(***************************************************************************)
MainName == <<"m", "a", "i", "n">>
EmptyName == <<>>
NameHyphen == <<"A", "-", "b">>
NameUnderscore == <<"a", "_", "b">>
NameBadStart == <<"-", "x">>

\* the names offered to create/delete/pin/unpin
NameInputs ==
    {EmptyName, MainName, NameHyphen, NameUnderscore, NameBadStart}

\* the parents offered to create
ParentInputs == {EmptyName, MainName, NameHyphen, NameUnderscore}

LowerChars == {"a", "b", "d", "e", "f", "i", "m", "n", "t", "v", "x"}
UpperChars == {"A", "B", "D", "E", "F", "I", "M", "N", "T", "V", "X"}
DigitChars == {"0", "1"}

\* strings.ToLower on one byte
ToLowerChar(c) ==
    CASE c = "A" -> "a" [] c = "B" -> "b" [] c = "D" -> "d" [] c = "E" -> "e"
      [] c = "I" -> "i" [] c = "M" -> "m" [] c = "N" -> "n" [] c = "V" -> "v"
      [] c = "X" -> "x" [] c = "F" -> "f" [] c = "T" -> "t" [] OTHER -> c

\* strings.NewReplacer("-", "_", ".", "_", "/", "_") on one byte
ReplacerChar(c) == IF c \in {"-", ".", "/"} THEN "_" ELSE c

sanitizeBranchName(name) ==
    [i \in DOMAIN name |-> ToLowerChar(ReplacerChar(name[i]))]

SchemaPrefix == <<"_", "r", "i", "f", "t", "_", "b", "r", "a", "n", "c", "h", "_">>

BranchSchemaName(branchName) == SchemaPrefix \o sanitizeBranchName(branchName)

MaxBranchNameLen == 63

\* branchNameRe: ^[a-zA-Z0-9][a-zA-Z0-9_-]*$
branchNameRe(name) ==
    /\ Len(name) >= 1
    /\ name[1] \in LowerChars \cup UpperChars \cup DigitChars
    /\ \A i \in 2..Len(name) :
          name[i] \in LowerChars \cup UpperChars \cup DigitChars \cup {"_", "-"}

ValidateBranchName(name) ==
    /\ name # EmptyName
    /\ Len(name) <= MaxBranchNameLen
    /\ branchNameRe(name)

(***************************************************************************)
(* Time: a TTL is a duration in ticks; the store keeps whole seconds.      *)
(***************************************************************************)
TicksPerSecond == 2

\* a *time.Duration argument: {} is nil, {d} points to d ticks
TTLInputs == {{}, {1}}

\* int(ttl.Seconds()): the store's ttl_seconds column
TTLSeconds(ttl) == {d \div TicksPerSecond : d \in ttl}

\* time.Duration(*b.TTLSeconds) * time.Second, back in ticks
SecondsToTicks(secs) == {s * TicksPerSecond : s \in secs}

TheTTL(ttl) == CHOOSE d \in ttl : TRUE

\* now.After(CreatedAt.Add(ttl)) for an unpinned branch that has a TTL
Expired(b, t) == b.ttl # {} /\ ~b.pinned /\ t > b.created + TheTTL(b.ttl)

(***************************************************************************)
(* The branches collection                                                 *)
(***************************************************************************)
NewBranch(parent, ttl, t) ==
    [parent |-> parent, pinned |-> FALSE, ttl |-> ttl, created |-> t]

MainBranch == [parent |-> EmptyName, pinned |-> TRUE, ttl |-> {}, created |-> 0]

Put(br, name, rec) ==
    [n \in DOMAIN br \cup {name} |-> IF n = name THEN rec ELSE br[n]]

\* delete(m.branches, name): the others keep their Parent as it is
MapDelete(br, names) == [n \in DOMAIN br \ names |-> br[n]]

HasChildren(br, name) == \E n \in DOMAIN br : br[n].parent = name

NonMain(br) == DOMAIN br \ {MainName}

\* no query traffic: the parts of the state the lifecycle does not touch
NoResult == [branch |-> EmptyName, sel |-> FALSE, status |-> "none", rows |-> {}]

\* no Diff and no merge yet
NoDiff == [branch |-> EmptyName, status |-> "none", Tables |-> {}]
NoMerge == [branch |-> EmptyName, status |-> "none", Statements |-> <<>>, work |-> {}]

NoTraffic ==
    /\ source = {} /\ overlay = <<>> /\ tracked = {} /\ pkCache = {}
    /\ result = NoResult
    /\ diff = NoDiff /\ merge = NoMerge

(***************************************************************************)
(* Metadata migrations                                                     *)
(***************************************************************************)
\* the version of the k-th migration file: 1, 2, 10, 20, ...
VersionOf(k) == IF k <= 2 THEN k ELSE 10 * (k - 2)

\* the prefix NNN of a file name NNN_*.sql, as its digits
MigrationName(k) ==
    LET v == VersionOf(k) IN <<v \div 100, (v \div 10) % 10, v % 10>>

\* migrations/*.sql as embedded in the release with `release` files
migrationFS(release) == {MigrationName(k) : k \in 1..release}

RECURSIVE NameLess(_, _)
\* entries[i].Name() < entries[j].Name(): strings compare byte by byte
NameLess(a, b) ==
    IF a = <<>> THEN b # <<>>
    ELSE IF b = <<>> THEN FALSE
    ELSE IF Head(a) # Head(b) THEN Head(a) < Head(b)
    ELSE NameLess(Tail(a), Tail(b))

\* sort.Slice by name
SortByName(names) ==
    CHOOSE o \in [1..Cardinality(names) -> names] :
        \A i, j \in DOMAIN o : i < j => NameLess(o[i], o[j])

RECURSIVE Atoi(_)
\* strconv.Atoi of the digits
Atoi(digits) ==
    IF digits = <<>> THEN 0
    ELSE 10 * Atoi(SubSeq(digits, 1, Len(digits) - 1)) + digits[Len(digits)]

\* parseMigrationVersion: the text before the first "_"
parseMigrationVersion(name) == Atoi(name)

\* no engine call is in progress
NoTasks == tasks = <<>> /\ catalog = <<>>

\* the metadata of an upstream on which release 1 was initialised
Migrated ==
    migrate = [release |-> 1, pc |-> "idle", entries |-> <<>>, i |-> 1,
               exists |-> TRUE, schema_version |-> {1}, executed |-> <<1>>,
               err |-> "ok"]

\* NewSession
NewSession ==
    /\ txStatus = "I" /\ tx = FALSE /\ upstreamTx = 0
    /\ stmts = <<>> /\ portals = <<>> /\ extErr = FALSE /\ out = <<>>
    /\ running = TRUE

Clients == 1..NumClients

\* a connection that has not arrived
NoConn ==
    [pc |-> "none", client |-> "open", upstream |-> "none", database |-> EmptyName,
     sent |-> <<>>, onConnect |-> FALSE]

\* proxy.New and Proxy.Start: the listener is open, acceptLoop runs and is
\* counted in the wait group
StartedProxy ==
    /\ listener = "open" /\ acceptPc = "accept" /\ accepted = 0
    /\ conns = [c \in Clients |-> NoConn]
    /\ connCount = 0 /\ wg = 1 /\ connections = {} /\ stopPc = "idle"

InitBranch ==
    /\ impl \in {"file", "store"}
    /\ branches = [n \in {MainName} |-> MainBranch]
    /\ schemas = {}
    /\ now = 0
    /\ err = "none"
    /\ NoTraffic
    /\ NewSession
    /\ StartedProxy
    /\ Migrated
    /\ NoTasks

Tick ==
    /\ now < MaxTime
    /\ now' = now + 1
    /\ UNCHANGED <<cowVars, sessVars, proxyVars, storeVars, taskVars, impl, branches, schemas, err>>

(***************************************************************************)
(* branch.Manager: the file-backed manager (one mutex, an in-memory map)   *)
(***************************************************************************)
\* a call rejected before it reads an argument is the same call whatever that
\* argument is: it is taken once, with the argument at its zero value
Unread(ttl, fail) == ttl = {} /\ fail = "none"

ManagerCreate(name, parent, ttl, saveOk) ==
    /\ impl = "file"
    /\ LET p == IF parent = EmptyName THEN MainName ELSE parent
       IN  IF name = EmptyName \/ name = MainName
             THEN (ttl = {} /\ saveOk) /\ err' = "ErrInvalidName" /\ UNCHANGED branches
           ELSE IF name \in DOMAIN branches
             THEN (ttl = {} /\ saveOk) /\ err' = "ErrBranchExists" /\ UNCHANGED branches
           ELSE IF p \notin DOMAIN branches
             THEN (ttl = {} /\ saveOk) /\ err' = "ErrBranchNotFound" /\ UNCHANGED branches
           ELSE IF saveOk
             THEN /\ branches' = Put(branches, name, NewBranch(p, ttl, now))
                  /\ err' = "ok"
           ELSE \* save failed: delete(m.branches, name)
                err' = "save failed" /\ UNCHANGED branches
    /\ UNCHANGED <<cowVars, sessVars, proxyVars, storeVars, taskVars, impl, schemas, now>>

ManagerDelete(name) ==
    /\ impl = "file"
    /\ IF name = MainName
         THEN err' = "ErrMainBranch" /\ UNCHANGED branches
       ELSE IF name \notin DOMAIN branches
         THEN err' = "ErrBranchNotFound" /\ UNCHANGED branches
       ELSE IF branches[name].pinned
         THEN err' = "branch is pinned" /\ UNCHANGED branches
       ELSE IF HasChildren(branches, name)
         THEN err' = "branch has children" /\ UNCHANGED branches
       ELSE /\ branches' = MapDelete(branches, {name})
            /\ err' = "ok"
    /\ UNCHANGED <<cowVars, sessVars, proxyVars, storeVars, taskVars, impl, schemas, now>>

ManagerPin(name) ==
    /\ impl = "file"
    /\ IF name \notin DOMAIN branches
         THEN err' = "ErrBranchNotFound" /\ UNCHANGED branches
         ELSE /\ branches' = [branches EXCEPT ![name].pinned = TRUE]
              /\ err' = "ok"
    /\ UNCHANGED <<cowVars, sessVars, proxyVars, storeVars, taskVars, impl, schemas, now>>

\* Unpin without the guard on main
ManagerUnpin_NoMainGuard(name) ==
    /\ impl = "file"
    /\ IF name \notin DOMAIN branches
         THEN err' = "ErrBranchNotFound" /\ UNCHANGED branches
         ELSE /\ branches' = [branches EXCEPT ![name].pinned = FALSE]
              /\ err' = "ok"
    /\ UNCHANGED <<cowVars, sessVars, proxyVars, storeVars, taskVars, impl, schemas, now>>

ManagerUnpin(name) ==
    /\ impl = "file"
    /\ IF name = MainName
         THEN err' = "ErrMainBranch" /\ UNCHANGED branches
       ELSE IF name \notin DOMAIN branches
         THEN err' = "ErrBranchNotFound" /\ UNCHANGED branches
       ELSE /\ branches' = [branches EXCEPT ![name].pinned = FALSE]
            /\ err' = "ok"
    /\ UNCHANGED <<cowVars, sessVars, proxyVars, storeVars, taskVars, impl, schemas, now>>

\* every branch with a TTL, unpinned and past its expiry is deleted; children
\* are not looked at
ManagerGC ==
    /\ impl = "file"
    /\ LET expired == {n \in DOMAIN branches : Expired(branches[n], now)}
       IN  /\ branches' = MapDelete(branches, expired)
           /\ err' = "ok"
    /\ UNCHANGED <<cowVars, sessVars, proxyVars, storeVars, taskVars, impl, schemas, now>>

(***************************************************************************)
(* storage.PgStore: the _rift.branches table and the overlay schemas       *)
(***************************************************************************)
\* DELETE FROM _rift.branches WHERE name = $1, with the foreign key
\* parent REFERENCES _rift.branches(name) ON DELETE SET NULL
StoreDeleteBranch(br, name) ==
    [n \in DOMAIN br \ {name} |->
        IF br[n].parent = name THEN [br[n] EXCEPT !.parent = EmptyName] ELSE br[n]]

\* CREATE SCHEMA IF NOT EXISTS
CreateBranchSchema(sch, branchName) == sch \cup {BranchSchemaName(branchName)}

\* DROP SCHEMA IF EXISTS ... CASCADE
DropBranchSchema(sch, branchName) == sch \ {BranchSchemaName(branchName)}

\* the row CreateBranch inserts: ttl_seconds holds whole seconds
StoreBranchRow(parent, ttl, t) ==
    NewBranch(parent, SecondsToTicks(TTLSeconds(ttl)), t)

\* where an upstream statement of a create can fail
CreateFailures == {"none", "insert", "schema", "undo"}

\* the tail shared by Engine.CreateBranch and StorageBackedManager.Create:
\* insert the row, create the schema, undo the insert if that fails; the
\* error of the undoing DeleteBranch is dropped ("undo": both fail)
StoreCreate(name, parent, ttl, fail) ==
    IF name \in DOMAIN branches \/ fail = "insert"
      THEN \* the INSERT fails (primary key, or the upstream)
           err' = "create branch" /\ UNCHANGED <<branches, schemas>>
    ELSE IF fail = "schema"
      THEN /\ branches' = StoreDeleteBranch(
                              Put(branches, name, StoreBranchRow(parent, ttl, now)), name)
           /\ err' = "create branch schema"
           /\ UNCHANGED schemas
    ELSE IF fail = "undo"
      THEN /\ branches' = Put(branches, name, StoreBranchRow(parent, ttl, now))
           /\ err' = "create branch schema"
           /\ UNCHANGED schemas
    ELSE /\ branches' = Put(branches, name, StoreBranchRow(parent, ttl, now))
         /\ schemas' = CreateBranchSchema(schemas, name)
         /\ err' = "ok"

EngineCreateBranch(name, parent, ttl, fail) ==
    /\ impl = "store"
    /\ IF ~ValidateBranchName(name)
         THEN Unread(ttl, fail) /\ err' = "InvalidBranchName" /\ UNCHANGED <<branches, schemas>>
       ELSE IF parent \notin DOMAIN branches
         THEN Unread(ttl, fail) /\ err' = "parent not found" /\ UNCHANGED <<branches, schemas>>
       ELSE StoreCreate(name, parent, ttl, fail)
    /\ UNCHANGED <<cowVars, sessVars, proxyVars, storeVars, taskVars, impl, now>>

SbmCreate(name, parent, ttl, fail) ==
    /\ impl = "store"
    /\ LET p == IF parent = EmptyName THEN MainName ELSE parent
       IN  IF name = EmptyName \/ name = MainName \/ ~ValidateBranchName(name)
             THEN Unread(ttl, fail) /\ err' = "ErrInvalidName" /\ UNCHANGED <<branches, schemas>>
           ELSE IF name \in DOMAIN branches
             THEN Unread(ttl, fail) /\ err' = "ErrBranchExists" /\ UNCHANGED <<branches, schemas>>
           ELSE IF p \notin DOMAIN branches
             THEN Unread(ttl, fail) /\ err' = "ErrBranchNotFound" /\ UNCHANGED <<branches, schemas>>
           ELSE StoreCreate(name, p, ttl, fail)
    /\ UNCHANGED <<cowVars, sessVars, proxyVars, storeVars, taskVars, impl, now>>

\* where an upstream statement of a delete can fail
DeleteFailures == {"none", "drop", "delete"}

\* the tail shared by Engine.DeleteBranch and StorageBackedManager.Delete
StoreDelete(name, fail) ==
    IF branches[name].pinned
      THEN fail = "none" /\ err' = "branch is pinned" /\ UNCHANGED <<branches, schemas>>
    ELSE IF HasChildren(branches, name)
      THEN fail = "none" /\ err' = "branch has children" /\ UNCHANGED <<branches, schemas>>
    ELSE IF fail = "drop"
      THEN err' = "drop branch schema" /\ UNCHANGED <<branches, schemas>>
    ELSE IF fail = "delete"
      THEN /\ schemas' = DropBranchSchema(schemas, name)
           /\ err' = "delete branch"
           /\ UNCHANGED branches
    ELSE /\ schemas' = DropBranchSchema(schemas, name)
         /\ branches' = StoreDeleteBranch(branches, name)
         /\ err' = "ok"

EngineDeleteBranch(name, fail) ==
    /\ impl = "store"
    /\ IF name \notin DOMAIN branches
         THEN fail = "none" /\ err' = "ErrBranchNotFound" /\ UNCHANGED <<branches, schemas>>
         ELSE StoreDelete(name, fail)
    /\ UNCHANGED <<cowVars, sessVars, proxyVars, storeVars, taskVars, impl, now>>

SbmDelete(name, fail) ==
    /\ impl = "store"
    /\ IF name = MainName
         THEN fail = "none" /\ err' = "ErrMainBranch" /\ UNCHANGED <<branches, schemas>>
       ELSE IF name \notin DOMAIN branches
         THEN fail = "none" /\ err' = "ErrBranchNotFound" /\ UNCHANGED <<branches, schemas>>
       ELSE StoreDelete(name, fail)
    /\ UNCHANGED <<cowVars, sessVars, proxyVars, storeVars, taskVars, impl, now>>

SbmPin(name, updateOk) ==
    /\ impl = "store"
    /\ IF name \notin DOMAIN branches
         THEN updateOk /\ err' = "ErrBranchNotFound" /\ UNCHANGED branches
       ELSE IF ~updateOk
         THEN err' = "update branch" /\ UNCHANGED branches
       ELSE /\ branches' = [branches EXCEPT ![name].pinned = TRUE]
            /\ err' = "ok"
    /\ UNCHANGED <<cowVars, sessVars, proxyVars, storeVars, taskVars, impl, schemas, now>>

SbmUnpin(name, updateOk) ==
    /\ impl = "store"
    /\ IF name = MainName
         THEN updateOk /\ err' = "ErrMainBranch" /\ UNCHANGED branches
       ELSE IF name \notin DOMAIN branches
         THEN updateOk /\ err' = "ErrBranchNotFound" /\ UNCHANGED branches
       ELSE IF ~updateOk
         THEN err' = "update branch" /\ UNCHANGED branches
       ELSE /\ branches' = [branches EXCEPT ![name].pinned = FALSE]
            /\ err' = "ok"
    /\ UNCHANGED <<cowVars, sessVars, proxyVars, storeVars, taskVars, impl, schemas, now>>

\* the orders ListBranches (ORDER BY created_at) can return a set of rows in
CreatedOrders(br, names) ==
    {o \in [1..Cardinality(names) -> names] :
        /\ \A i, j \in DOMAIN o : i # j => o[i] # o[j]
        /\ \A i, j \in DOMAIN o : i < j => br[o[i]].created <= br[o[j]].created}

RECURSIVE GCDeleteAll(_, _, _)
\* the rows of `order` from position i on, deleted one after the other
GCDeleteAll(br, order, i) ==
    IF i > Len(order) THEN br
    ELSE GCDeleteAll(StoreDeleteBranch(br, order[i]), order, i + 1)

\* StorageBackedManager.GC over the snapshot ListBranches returned: the
\* first `done` expired branches are removed, then the upstream fails (or
\* the list ends)
SbmGCRun(order, done, fail) ==
    LET gone == SubSeq(order, 1, done)
        br1 == GCDeleteAll(branches, gone, 1)
        sch1 == schemas \ {BranchSchemaName(gone[i]) : i \in DOMAIN gone}
    IN  IF done = Len(order)
          THEN /\ fail = "none"
               /\ branches' = br1 /\ schemas' = sch1 /\ err' = "ok"
        ELSE IF fail = "drop"
          THEN /\ branches' = br1 /\ schemas' = sch1 /\ err' = "drop schema"
        ELSE /\ fail = "delete"
             /\ branches' = br1
             /\ schemas' = DropBranchSchema(sch1, order[done + 1])
             /\ err' = "delete branch"

SbmGC ==
    /\ impl = "store"
    /\ \E order \in CreatedOrders(branches,
                     {n \in DOMAIN branches : Expired(branches[n], now)}) :
          \E done \in 0..Len(order), fail \in DeleteFailures :
             SbmGCRun(order, done, fail)
    /\ UNCHANGED <<cowVars, sessVars, proxyVars, storeVars, taskVars, impl, now>>

NextBranch ==
    \/ Tick
    \/ \E name \in NameInputs, parent \in ParentInputs, ttl \in TTLInputs, ok \in BOOLEAN :
          ManagerCreate(name, parent, ttl, ok)
    \/ \E name \in NameInputs : ManagerDelete(name)
    \/ \E name \in NameInputs : ManagerPin(name)
    \/ \E name \in NameInputs : ManagerUnpin(name)
    \/ ManagerGC
    \/ \E name \in NameInputs, parent \in ParentInputs, ttl \in TTLInputs,
          fail \in CreateFailures : EngineCreateBranch(name, parent, ttl, fail)
    \/ \E name \in NameInputs, parent \in ParentInputs, ttl \in TTLInputs,
          fail \in CreateFailures : SbmCreate(name, parent, ttl, fail)
    \/ \E name \in NameInputs, fail \in DeleteFailures : EngineDeleteBranch(name, fail)
    \/ \E name \in NameInputs, fail \in DeleteFailures : SbmDelete(name, fail)
    \/ \E name \in NameInputs, ok \in BOOLEAN : SbmPin(name, ok)
    \/ \E name \in NameInputs, ok \in BOOLEAN : SbmUnpin(name, ok)
    \/ SbmGC

SpecBranch == InitBranch /\ [][NextBranch]_vars

(***************************************************************************)
(* Branch lifecycle: claims                                                *)
(***************************************************************************)

\* C4: two distinct existing non-main branches never share an overlay
\* schema (so neither a write on one nor the deletion of one changes what
\* clients of the other see).
CE_C4_DistinctOverlaySchemas ==
    impl = "store" =>
        \A a, b \in NonMain(branches) :
            a # b => BranchSchemaName(a) # BranchSchemaName(b)

\* C6: after any sequence of create, delete, pin, unpin and GC, every
\* non-main branch's parent is an existing branch.
CE_C6_ParentExists ==
    \A n \in NonMain(branches) : branches[n].parent \in DOMAIN branches

\* C7: a branch is removed (explicit delete or GC) only if at that moment it
\* is unpinned and no existing branch names it as parent.
CE_C7_RemovedOnlyUnpinnedChildless ==
    [][\A n \in DOMAIN branches \ DOMAIN branches' :
          ~branches[n].pinned /\ ~HasChildren(branches, n)]_vars

MainExistsPinned == MainName \in DOMAIN branches /\ branches[MainName].pinned

\* a delete or an unpin of main, through any entry point
DeleteOrUnpinMain ==
    \/ ManagerDelete(MainName)
    \/ ManagerUnpin(MainName)
    \/ \E fail \in DeleteFailures : SbmDelete(MainName, fail)
    \/ \E fail \in DeleteFailures : EngineDeleteBranch(MainName, fail)
    \/ \E ok \in BOOLEAN : SbmUnpin(MainName, ok)

\* C8: in every state reachable through create, delete, pin, unpin and GC
\* (manager or engine entry points) main exists and is pinned; a delete or an
\* unpin of main is rejected and leaves the state unchanged.
Thm_C8_MainAlwaysPinned ==
    /\ []MainExistsPinned
    /\ [][DeleteOrUnpinMain =>
            err' # "ok" /\ UNCHANGED <<branches, schemas>>]_vars

\* main has just survived a delete or an unpin aimed at it, next to another
\* branch
Witness_C8 ==
    /\ err = "ErrMainBranch"
    /\ MainExistsPinned
    /\ NonMain(branches) # {}

(***************************************************************************)
(* Query traffic: the upstream database                                    *)
(*                                                                         *)
(* One source table, public.users(id PRIMARY KEY, val).  A branch `dev`    *)
(* forked from main and a branch `feat` forked from dev exist, each with   *)
(* its overlay schema.  A query is a sequence of statements (the text of   *)
(* one simple Query message).                                              *)
(***************************************************************************)
MaxPK == 2          \* primary keys 1..MaxPK

Dev == <<"d", "e", "v">>
Feat == <<"f", "e", "a", "t">>
PublicSchema == <<"p", "u", "b", "l", "i", "c">>
OverlaySchemas == {BranchSchemaName(Dev), BranchSchemaName(Feat)}

PKs == 1..MaxPK

SourceCols == <<"id", "val">>
TombstoneCol == "_rift_tombstone"

\* a shadow table that does not exist
NoTable == [exists |-> FALSE, cols |-> <<>>, hasPK |-> FALSE, rows |-> {}]

Row(pk, val) == [id |-> pk, val |-> val]
ShadowRow(pk, val, tomb) == [id |-> pk, val |-> val, tomb |-> tomb]

HasCol(t, c) == \E i \in DOMAIN t.cols : t.cols[i] = c

\* ---- statements as the client writes them ----
\* type: what classifyStatement makes of the statement; ref: the table the
\* statement names ("none" for SELECT 1)
\* TargetColumns: the column list of an INSERT, empty when it has none
Stmt(type, ref, pk, val) ==
    [type |-> type, ref |-> ref, pk |-> pk, val |-> val, TargetColumns |-> <<>>]
SelectUsers == Stmt("select", "users", 0, "")                \* SELECT * FROM users
SelectOne == Stmt("select", "none", 0, "")                   \* SELECT 1
\* INSERT INTO users (id, val) VALUES (pk, val)
InsertUsers(pk, val) ==
    [Stmt("insert", "users", pk, val) EXCEPT !.TargetColumns = SourceCols]
InsertValuesUsers(pk, val) == Stmt("insert", "users", pk, val) \* INSERT INTO users VALUES (pk, val)
UpdateUsers(pk, val) == Stmt("update", "users", pk, val)     \* UPDATE users SET val = val WHERE id = pk
DeleteUsers(pk) == Stmt("delete", "users", pk, "")           \* DELETE FROM users WHERE id = pk
DropUsers == Stmt("ddl", "users", 0, "")                     \* DROP TABLE users
TruncateUsers == Stmt("utility", "users", 0, "")             \* TRUNCATE users

WriteStmts ==
    {InsertUsers(MaxPK, "b"), InsertValuesUsers(MaxPK, "c"), UpdateUsers(1, "b")}
      \cup {DeleteUsers(pk) : pk \in PKs}

\* the queries clients send on a branch: single statements, and a write
\* behind a table-free SELECT in the same Query message
BranchQueries ==
    {<<st>> : st \in WriteStmts \cup {SelectUsers, SelectOne, DropUsers, TruncateUsers}}
      \cup {<<SelectOne, DeleteUsers(1)>>}

\* the queries clients send on main
MainQueries == {<<st>> : st \in {InsertUsers(MaxPK, "a"), DeleteUsers(1)}}

\* ---- statements as they reach the upstream ----
\* op on a target schema's users table; src is the schema read by a copy or
\* a merge
\* set: the columns an upsert assigns from EXCLUDED on a conflict
Up(op, target, src, pk, val) ==
    [op |-> op, target |-> target, src |-> src, pk |-> pk, val |-> val, set |-> <<>>]

\* a client statement sent as it is: `users` resolves to public.users
Direct(st) ==
    CASE st.type = "select" /\ st.ref = "none" -> Up("select1", PublicSchema, PublicSchema, 0, "")
      [] st.type = "select" -> Up("select", PublicSchema, PublicSchema, 0, "")
      [] st.type = "insert" -> Up("insert", PublicSchema, PublicSchema, st.pk, st.val)
      [] st.type = "update" -> Up("update", PublicSchema, PublicSchema, st.pk, st.val)
      [] st.type = "delete" -> Up("delete", PublicSchema, PublicSchema, st.pk, "")
      [] st.type = "ddl" -> Up("drop", PublicSchema, PublicSchema, 0, "")
      [] OTHER -> Up("truncate", PublicSchema, PublicSchema, 0, "")

Passthrough(q) == [i \in DOMAIN q |-> Direct(q[i])]

\* ---- what the upstream does with one statement ----
\* db is [source, overlay]; the outcome is [db, ok, rows]
Done(db, rows) == [db |-> db, ok |-> TRUE, rows |-> rows]
Failed(db) == [db |-> db, ok |-> FALSE, rows |-> {}]

SetTable(db, schema, t) == [db EXCEPT !.overlay[schema] = t]
SetRows(db, schema, rows) == [db EXCEPT !.overlay[schema].rows = rows]

\* the rows of the merge: live shadow rows, and the rows of the base that
\* no shadow row covers
Merge(shadow, base) ==
    {Row(r.id, r.val) : r \in {x \in shadow : ~x.tomb}}
      \cup {r \in base : ~\E x \in shadow : x.id = r.id}

\* WITH _rift_merged_users AS (SELECT * FROM ovr WHERE NOT _rift_tombstone
\*   UNION ALL SELECT src.* FROM src WHERE NOT EXISTS (...)) SELECT * FROM ...
\* The upstream rejects a UNION whose arms differ in their number of columns
ExecMerged(db, up) ==
    LET t == db.overlay[up.target]
    IN  IF ~t.exists THEN Failed(db)                     \* relation does not exist
        ELSE IF ~HasCol(t, TombstoneCol) THEN Failed(db) \* column does not exist
        ELSE IF Len(t.cols) # Len(SourceCols) THEN Failed(db)
        ELSE Done(db, Merge(t.rows, db.source))

\* INSERT INTO ovr [(id, val)] VALUES (pk, val)
\*   ON CONFLICT (id) DO UPDATE SET <set> = EXCLUDED.<set>, _rift_tombstone = false
\* A row in conflict keeps the columns the SET list does not name
ExecUpsert(db, up) ==
    LET t == db.overlay[up.target]
        old == {r \in t.rows : r.id = up.pk}
        val == IF old = {} \/ \E i \in DOMAIN up.set : up.set[i] = "val" THEN up.val
               ELSE (CHOOSE r \in old : TRUE).val
    IN  IF ~t.exists \/ ~t.hasPK \/ ~HasCol(t, TombstoneCol) THEN Failed(db)
        ELSE Done(SetRows(db, up.target,
                      (t.rows \ old) \cup {ShadowRow(up.pk, val, FALSE)}), {})

\* a copy that leaves out the NOT EXISTS test and replaces the shadow row
ExecCopy_Overwrite(db, up) ==
    LET t == db.overlay[up.target]
        copied == {ShadowRow(r.id, r.val, FALSE) : r \in {x \in db.source : x.id = up.pk}}
    IN  IF ~t.exists \/ Len(t.cols) # Len(SourceCols) + 1 THEN Failed(db)
        ELSE Done(SetRows(db, up.target,
                      {r \in t.rows : ~\E c \in copied : c.id = r.id} \cup copied), {})

\* INSERT INTO ovr SELECT src.*, false AS _rift_tombstone FROM src
\*   WHERE NOT EXISTS (SELECT 1 FROM ovr WHERE ovr.id = src.id) AND (id = pk)
ExecCopy(db, up) ==
    LET t == db.overlay[up.target]
    IN  IF ~t.exists \/ Len(t.cols) # Len(SourceCols) + 1 THEN Failed(db)
        ELSE Done(SetRows(db, up.target,
                      t.rows \cup
                        {ShadowRow(r.id, r.val, FALSE) :
                           r \in {x \in db.source :
                                    /\ x.id = up.pk
                                    /\ ~\E y \in t.rows : y.id = x.id}}), {})

\* UPDATE ovr SET _rift_tombstone = true WHERE id = pk
ExecTombstone(db, up) ==
    LET t == db.overlay[up.target]
    IN  IF ~t.exists \/ ~HasCol(t, TombstoneCol) THEN Failed(db)
        ELSE Done(SetRows(db, up.target,
                      {IF r.id = up.pk THEN ShadowRow(r.id, r.val, TRUE) ELSE r :
                         r \in t.rows}), {})

\* statements on the shadow table, left as the client wrote them but for the
\* table name
ExecOnOverlay(db, up) ==
    LET t == db.overlay[up.target]
    IN  IF ~t.exists THEN Failed(db)
        ELSE IF up.op = "update"
          THEN Done(SetRows(db, up.target,
                       {IF r.id = up.pk THEN ShadowRow(r.id, up.val, r.tomb) ELSE r :
                          r \in t.rows}), {})
        ELSE IF up.op = "drop" THEN Done(SetTable(db, up.target, NoTable), {})
        ELSE Failed(db)

\* statements on public.users
ExecOnSource(db, up) ==
    CASE up.op = "select1" -> Done(db, {})
      [] up.op = "select" -> Done(db, db.source)
      [] up.op = "insert" ->
           IF \E r \in db.source : r.id = up.pk THEN Failed(db)   \* unique violation
           ELSE Done([db EXCEPT !.source = @ \cup {Row(up.pk, up.val)}], {})
      [] up.op = "update" ->
           Done([db EXCEPT !.source =
                   {IF r.id = up.pk THEN Row(r.id, up.val) ELSE r : r \in @}], {})
      [] up.op = "delete" ->
           Done([db EXCEPT !.source = {r \in @ : r.id # up.pk}], {})
      [] up.op = "truncate" -> Done([db EXCEPT !.source = {}], {})
      [] OTHER -> Failed(db)

Exec(db, up) ==
    CASE up.op = "merged" -> ExecMerged(db, up)
      [] up.op = "upsert" -> ExecUpsert(db, up)
      [] up.op = "copy" -> ExecCopy(db, up)
      [] up.op = "tombstone" -> ExecTombstone(db, up)
      [] up.target = PublicSchema -> ExecOnSource(db, up)
      [] OTHER -> ExecOnOverlay(db, up)

RECURSIVE RunStatements(_, _, _)
\* the loop of executeProcessed from statement i on: each statement is sent
\* on its own, the first error ends the loop, the reply is the last
\* statement's
RunStatements(db, stmtsToRun, i) ==
    LET r == Exec(db, stmtsToRun[i])
    IN  IF ~r.ok THEN [db |-> r.db, status |-> "error", rows |-> {}]
        ELSE IF i = Len(stmtsToRun)
          THEN [db |-> r.db, status |-> "ok", rows |-> r.rows]
        ELSE RunStatements(r.db, stmtsToRun, i + 1)

\* Session.executeProcessed: rows go back for a SELECT, a tag otherwise
executeProcessed(db, pq) ==
    LET r == RunStatements(db, pq.stmts, 1)
    IN  [db |-> r.db,
         status |-> IF r.status = "error" THEN "error"
                    ELSE IF pq.Type = "select" THEN "rows" ELSE "complete",
         rows |-> IF r.status = "ok" /\ pq.Type = "select" THEN r.rows ELSE {}]

(***************************************************************************)
(* Query traffic: the engine and the rewriter                              *)
(***************************************************************************)
\* where the upstream fails during ensureOverlays, if it does
EnsureFailures == {"none", "create", "tombstone", "checkpk", "addpk", "cache", "track"}

\* parser.Parse: only the first statement of the text is classified
Parse(q) ==
    [Original |-> q,
     Type |-> q[1].type,
     Tables |-> IF q[1].ref = "users" THEN {"users"} ELSE {},
     pk |-> q[1].pk,
     val |-> q[1].val,
     TargetColumns |-> q[1].TargetColumns]

TableExists(db, schema) == db.overlay[schema].exists

\* EnsureOverlayTable: three statements sent one after the other; the
\* outcome is [table, err]
EnsureOverlayTable(t, fail) ==
    IF t.exists THEN [table |-> t, err |-> FALSE]
    ELSE IF fail = "create" THEN [table |-> t, err |-> TRUE]
    ELSE
      \* CREATE TABLE ovr (LIKE src INCLUDING DEFAULTS INCLUDING CONSTRAINTS)
      \* copies columns, defaults and CHECK constraints, not the primary key
      LET created == [exists |-> TRUE, cols |-> SourceCols, hasPK |-> FALSE, rows |-> {}]
          withTomb == [created EXCEPT !.cols = Append(@, TombstoneCol)]
      IN  IF fail = "tombstone" THEN [table |-> created, err |-> TRUE]
          ELSE IF fail = "checkpk" THEN [table |-> withTomb, err |-> TRUE]
          ELSE IF withTomb.hasPK THEN [table |-> withTomb, err |-> FALSE]
          ELSE IF fail = "addpk" THEN [table |-> withTomb, err |-> TRUE]
          ELSE [table |-> [withTomb EXCEPT !.hasPK = TRUE], err |-> FALSE]

\* Engine.ensureOverlays: the outcome is [db, tracked, err]
ensureOverlays(db, trk, branchName, pq, fail) ==
    IF pq.Tables = {} THEN [db |-> db, tracked |-> trk, err |-> FALSE]
    ELSE
      LET branchSchema == BranchSchemaName(branchName)
          e == EnsureOverlayTable(db.overlay[branchSchema], fail)
          db1 == SetTable(db, branchSchema, e.table)
          \* GetTablePrimaryKeys, CachePrimaryKeys
          db2 == [db1 EXCEPT !.pkCache = @ \cup pq.Tables]
      IN  IF e.err THEN [db |-> db1, tracked |-> trk, err |-> TRUE]
          ELSE IF fail = "cache" THEN [db |-> db1, tracked |-> trk, err |-> TRUE]
          ELSE IF fail = "track" THEN [db |-> db2, tracked |-> trk, err |-> TRUE]
          ELSE [db |-> db2, tracked |-> trk \cup {branchName}, err |-> FALSE]

NoConfigs == [t \in {} |-> {}]

\* Engine.buildRewriteConfigs: table name -> RewriteConfig
buildRewriteConfigs(db, trk, branchName, pq) ==
    LET branchSchema == BranchSchemaName(branchName)
    IN  IF pq.Tables = {} THEN NoConfigs
        ELSE IF ~TableExists(db, branchSchema) /\ pq.Type = "select"
                  /\ branchName \notin trk
          THEN NoConfigs
        ELSE [t \in pq.Tables |->
                [BranchSchema |-> branchSchema, SourceSchema |-> PublicSchema]]

rewriteSelect(pq, configs) ==
    IF pq.Tables = {} \/ "users" \notin DOMAIN configs THEN Passthrough(pq.Original)
    ELSE <<Up("merged", configs["users"].BranchSchema, configs["users"].SourceSchema, 0, "")>>

rewriteInsert(pq, configs) ==
    IF pq.Tables = {} \/ "users" \notin DOMAIN configs THEN Passthrough(pq.Original)
    ELSE <<[Up("upsert", configs["users"].BranchSchema, configs["users"].SourceSchema,
               pq.pk, pq.val) EXCEPT !.set = pq.TargetColumns]>>

rewriteUpdate(pq, configs) ==
    IF pq.Tables = {} \/ "users" \notin DOMAIN configs THEN Passthrough(pq.Original)
    ELSE LET cfg == configs["users"]
         IN  <<Up("copy", cfg.BranchSchema, cfg.SourceSchema, pq.pk, ""),
               Up("update", cfg.BranchSchema, cfg.SourceSchema, pq.pk, pq.val)>>

rewriteDelete(pq, configs) ==
    IF pq.Tables = {} \/ "users" \notin DOMAIN configs THEN Passthrough(pq.Original)
    ELSE LET cfg == configs["users"]
         IN  <<Up("copy", cfg.BranchSchema, cfg.SourceSchema, pq.pk, ""),
               Up("tombstone", cfg.BranchSchema, cfg.SourceSchema, pq.pk, "")>>

rewriteDDL(pq, configs) ==
    IF pq.Tables = {} \/ "users" \notin DOMAIN configs THEN Passthrough(pq.Original)
    ELSE <<Up("drop", configs["users"].BranchSchema, configs["users"].SourceSchema, 0, "")>>

RewriteForBranch(pq, configs) ==
    CASE pq.Type = "select" -> rewriteSelect(pq, configs)
      [] pq.Type = "insert" -> rewriteInsert(pq, configs)
      [] pq.Type = "update" -> rewriteUpdate(pq, configs)
      [] pq.Type = "delete" -> rewriteDelete(pq, configs)
      [] pq.Type = "ddl" -> rewriteDDL(pq, configs)
      [] OTHER -> Passthrough(pq.Original)

\* a ProcessQuery that ensures the overlays for every statement
IsWriteOrDDL_Always(pq) == TRUE

\* pq.IsWrite() || pq.IsDDL()
IsWriteOrDDL(pq) == pq.Type \in {"insert", "update", "delete", "ddl"}

\* Engine.ProcessQuery: the outcome is [db, tracked, err, Type, stmts]
ProcessQuery(db, trk, branchName, q, fail) ==
    IF branchName = MainName
      THEN [db |-> db, tracked |-> trk, err |-> FALSE, Type |-> "", stmts |-> Passthrough(q)]
    ELSE
      LET pq == Parse(q)
      IN  IF pq.Type = "utility"
            THEN [db |-> db, tracked |-> trk, err |-> FALSE, Type |-> pq.Type,
                  stmts |-> Passthrough(q)]
          ELSE IF IsWriteOrDDL(pq)
            THEN LET e == ensureOverlays(db, trk, branchName, pq, fail)
                 IN  [db |-> e.db, tracked |-> e.tracked, err |-> e.err, Type |-> pq.Type,
                      stmts |-> IF e.err THEN <<>>
                                ELSE RewriteForBranch(pq,
                                       buildRewriteConfigs(e.db, e.tracked, branchName, pq))]
          ELSE [db |-> db, tracked |-> trk, err |-> FALSE, Type |-> pq.Type,
                stmts |-> RewriteForBranch(pq, buildRewriteConfigs(db, trk, branchName, pq))]

\* one simple Query of a client connected to branchName, outside a
\* transaction: Engine.ProcessQuery, then Session.executeProcessed
Query(branchName, q, fail) ==
    \E p \in {ProcessQuery([source |-> source, overlay |-> overlay, pkCache |-> pkCache],
                            tracked, branchName, q, fail)} :
      \E r \in {IF p.err THEN [db |-> p.db, status |-> "error", rows |-> {}]
                 ELSE executeProcessed(p.db, p)} :
        /\ source' = r.db.source
        /\ overlay' = r.db.overlay
        /\ pkCache' = r.db.pkCache
        /\ tracked' = p.tracked
        /\ result' = [branch |-> branchName,
                      sel |-> q = <<SelectUsers>>,
                      status |-> r.status,
                      rows |-> r.rows]
        /\ UNCHANGED <<diff, merge, branchVars, sessVars, proxyVars, storeVars, taskVars>>

\* a failure is drawn only where the upstream is asked: the three statements
\* of EnsureOverlayTable for a shadow table that is not there yet,
\* CachePrimaryKeys and TrackTable for any write
Reached(branchName, q, fail) ==
    \/ fail = "none"
    \/ /\ q[1].type \in {"insert", "update", "delete", "ddl"}
       /\ fail \in {"cache", "track"} \/ ~overlay[BranchSchemaName(branchName)].exists

ClientQuery ==
    \/ \E q \in MainQueries : Query(MainName, q, "none")
    \/ \E branchName \in {Dev, Feat}, q \in BranchQueries, fail \in EnsureFailures :
          Reached(branchName, q, fail) /\ Query(branchName, q, fail)

InitCow ==
    /\ impl = "store"
    /\ branches = (MainName :> MainBranch) @@ (Dev :> NewBranch(MainName, {}, 0))
                    @@ (Feat :> NewBranch(Dev, {}, 0))
    /\ schemas = OverlaySchemas
    /\ now = 0
    /\ err = "ok"
    /\ source = {Row(1, "a")}
    /\ overlay = [sch \in OverlaySchemas |-> NoTable]
    /\ tracked = {}
    /\ pkCache = {}
    /\ result = NoResult
    /\ diff = NoDiff /\ merge = NoMerge
    /\ NewSession
    /\ StartedProxy
    /\ Migrated
    /\ NoTasks

NextCow == ClientQuery

SpecCow == InitCow /\ [][NextCow]_vars

(***************************************************************************)
(* Query traffic: claims                                                   *)
(***************************************************************************)

\* C1: no statement sent on a non-main branch (read, INSERT/UPDATE/DELETE,
\* DDL, utility, single- or multi-statement) changes the contents of the
\* source table.
CE_C1_SourceUntouchedByBranchTraffic ==
    [][result'.branch # MainName => source' = source]_vars

\* the shadow rows of a branch
ShadowRows(branchName) == overlay[BranchSchemaName(branchName)].rows

OnePerPK(rows) == \A r1, r2 \in rows : r1.id = r2.id => r1 = r2

\* C2: a SELECT on a tracked table of a branch forked from main sees exactly
\* the non-tombstone shadow rows plus the source rows whose PK has no shadow
\* row, with at most one row per PK.
CE_C2_SelectSeesEffectiveView ==
    (/\ result.sel
     /\ result.branch \in tracked
     /\ branches[result.branch].parent = MainName)
      => /\ result.status = "rows"
         /\ result.rows = Merge(ShadowRows(result.branch), source)
         /\ OnePerPK(result.rows)

\* C3: every shadow table that exists carries the source table's primary
\* key, so no two of its rows share a PK, after any sequence of successful
\* or failed ensure_overlay_table calls.
CE_C3_ShadowTableHasPK ==
    \A sch \in DOMAIN overlay :
        overlay[sch].exists => overlay[sch].hasPK /\ OnePerPK(overlay[sch].rows)

\* C5: for a branch whose parent is itself a non-main branch, a SELECT sees
\* the parent's effective view overlaid with the branch's own shadow rows.
CE_C5_ChildSeesParentView ==
    (/\ result.sel
     /\ result.branch \in NonMain(branches)
     /\ branches[result.branch].parent \in NonMain(branches))
      => /\ result.status = "rows"
         /\ result.rows =
              Merge(ShadowRows(result.branch),
                    Merge(ShadowRows(branches[result.branch].parent), source))

(***************************************************************************)
(* The session of one client connection on a non-main branch               *)
(*                                                                         *)
(* SQL texts are drawn from a small set.  The upstream's answer to a       *)
(* statement is an input: "ok", an error when the statement is submitted   *)
(* ("submitErr"), or an error that arrives while the rows are read         *)
(* ("rowsErr", e.g. a division by zero in the third row).                  *)
(***************************************************************************)
MaxConns == 2       \* connections of the upstream pool

SQLTexts == {"", "BEGIN", "COMMIT", "ROLLBACK", "BEGIN WORK", "COMMIT WORK",
             "SELECT 1", "UPDATE t"}
StmtNames == {""}
PortalNames == {""}
Outcomes == {"ok", "submitErr", "rowsErr"}

isBegin(sql) == sql = "BEGIN"
isCommit(sql) == sql = "COMMIT"
isRollback(sql) == sql = "ROLLBACK"

\* parser.IsTransactionControl: a prefix match
IsTransactionControl(sql) ==
    sql \in {"BEGIN", "COMMIT", "ROLLBACK", "BEGIN WORK", "COMMIT WORK"}

\* the Type of the ProcessedQuery the engine returns for the text
QueryType(sql) ==
    IF IsTransactionControl(sql) THEN "utility"
    ELSE IF sql = "SELECT 1" THEN "select"
    ELSE "update"

Msg(type, arg) == [type |-> type, arg |-> arg]
ReadyForQuery(status) == Msg("ReadyForQuery", status)
CommandComplete(tag) == Msg("CommandComplete", tag)
ErrorResponse == Msg("ErrorResponse", "")

\* sendQueryError without its ReadyForQuery
sendQueryError_NoReady(written, status) == written \o <<ErrorResponse>>

\* Session.sendQueryError, after the messages already written
sendQueryError(written, status) == written \o <<ErrorResponse, ReadyForQuery(status)>>

\* tx.Commit, tx.Rollback: the transaction of the held connection is over
EndTx(n) == IF n > 0 THEN n - 1 ELSE 0

\* what a transaction statement does upstream when it is sent as it is.  On
\* the held connection it opens or ends that connection's transaction; on a
\* pooled connection the pool closes a connection released inside a
\* transaction, which ends the transaction with it
PassthroughTx(sql, held, n) ==
    IF ~held THEN n
    ELSE IF sql = "BEGIN WORK" THEN (IF n = 0 THEN 1 ELSE n)
    ELSE IF sql = "COMMIT WORK" THEN EndTx(n)
    ELSE n

\* Begin without the guard on a held transaction
handleBegin_NoGuard(txOk) ==
    IF ~txOk
      THEN /\ out' = sendQueryError(<<>>, txStatus)
           /\ UNCHANGED <<tx, txStatus, upstreamTx>>
    ELSE /\ upstreamTx < MaxConns
         /\ tx' = TRUE /\ txStatus' = "T" /\ upstreamTx' = upstreamTx + 1
         /\ out' = <<CommandComplete("BEGIN"), ReadyForQuery("T")>>

handleBegin(txOk) ==
    IF tx
      THEN /\ txOk
           /\ out' = <<CommandComplete("BEGIN"), ReadyForQuery(txStatus)>>
           /\ UNCHANGED <<tx, txStatus, upstreamTx>>
    ELSE IF ~txOk
      THEN /\ out' = sendQueryError(<<>>, txStatus)
           /\ UNCHANGED <<tx, txStatus, upstreamTx>>
    ELSE /\ upstreamTx < MaxConns
         /\ tx' = TRUE /\ txStatus' = "T" /\ upstreamTx' = upstreamTx + 1
         /\ out' = <<CommandComplete("BEGIN"), ReadyForQuery("T")>>

\* an end of transaction that resets the status only after a successful
\* Commit or Rollback
handleEnd_StatusAfterError(tag, txOk) ==
    IF ~tx
      THEN /\ txOk
           /\ out' = <<CommandComplete(tag), ReadyForQuery(txStatus)>>
           /\ UNCHANGED <<tx, txStatus, upstreamTx>>
    ELSE /\ tx' = FALSE /\ upstreamTx' = EndTx(upstreamTx)
         /\ txStatus' = IF txOk THEN "I" ELSE txStatus
         /\ out' = IF txOk THEN <<CommandComplete(tag), ReadyForQuery("I")>>
                   ELSE sendQueryError(<<>>, txStatus)

\* handleCommit and handleRollback differ in the tag only
handleEnd(tag, txOk) ==
    IF ~tx
      THEN /\ txOk
           /\ out' = <<CommandComplete(tag), ReadyForQuery(txStatus)>>
           /\ UNCHANGED <<tx, txStatus, upstreamTx>>
    ELSE /\ tx' = FALSE /\ txStatus' = "I" /\ upstreamTx' = EndTx(upstreamTx)
         /\ out' = IF txOk THEN <<CommandComplete(tag), ReadyForQuery("I")>>
                   ELSE sendQueryError(<<>>, "I")

handleCommit(txOk) == handleEnd("COMMIT", txOk)
handleRollback(txOk) == handleEnd("ROLLBACK", txOk)

\* Session.executeProcessed followed by the end of handleSimpleQuery
executeAndReply(sql, outcome) ==
    LET failed == IF txStatus = "T" THEN "E" ELSE txStatus
    IN  /\ tx' = tx
        /\ outcome = "rowsErr" => QueryType(sql) = "select"
        /\ IF outcome = "submitErr"
             THEN \* s.query or s.runExec returned the error
                  /\ txStatus' = failed
                  /\ upstreamTx' = upstreamTx
                  /\ out' = sendQueryError(<<>>, failed)
           ELSE IF outcome = "rowsErr"
             THEN \* sendQueryResult returned rows.Err()
                  /\ txStatus' = txStatus
                  /\ upstreamTx' = upstreamTx
                  /\ out' = sendQueryError(<<Msg("RowDescription", "")>>, txStatus)
           ELSE /\ txStatus' = txStatus
                /\ upstreamTx' = PassthroughTx(sql, tx, upstreamTx)
                /\ out' = IF QueryType(sql) = "select"
                            THEN <<Msg("RowDescription", ""), CommandComplete("SELECT"),
                                   ReadyForQuery(txStatus)>>
                          ELSE <<CommandComplete(sql), ReadyForQuery(txStatus)>>

\* an input the handler does not read has its first value
Unused(engineOk, outcome, txOk) == engineOk /\ outcome = "ok" /\ txOk

handleSimpleQuery(sql, engineOk, outcome, txOk) ==
    /\ running
    /\ IF sql = ""
         THEN /\ Unused(engineOk, outcome, txOk)
              /\ out' = <<Msg("EmptyQueryResponse", ""), ReadyForQuery(txStatus)>>
              /\ UNCHANGED <<tx, txStatus, upstreamTx>>
       ELSE IF isBegin(sql) THEN Unused(engineOk, outcome, TRUE) /\ handleBegin(txOk)
       ELSE IF isCommit(sql) THEN Unused(engineOk, outcome, TRUE) /\ handleCommit(txOk)
       ELSE IF isRollback(sql) THEN Unused(engineOk, outcome, TRUE) /\ handleRollback(txOk)
       ELSE IF ~engineOk
         THEN \* Engine.ProcessQuery failed
              /\ Unused(TRUE, outcome, txOk)
              /\ ~IsTransactionControl(sql)
              /\ out' = sendQueryError(<<>>, txStatus)
              /\ UNCHANGED <<tx, txStatus, upstreamTx>>
       ELSE txOk /\ executeAndReply(sql, outcome)
    /\ UNCHANGED <<stmts, portals, extErr, running, branchVars, cowVars, proxyVars, storeVars, taskVars>>

\* ---- extended query protocol ----
PreparedStmt(sql) == [sql |-> sql, Type |-> IF sql = "" THEN "" ELSE QueryType(sql)]

\* Session.Cleanup, deferred by Router.HandleSession
Cleanup ==
    /\ running' = FALSE
    /\ tx' = FALSE
    /\ upstreamTx' = IF tx THEN EndTx(upstreamTx) ELSE upstreamTx

handleParse(name, sql, engineOk) ==
    /\ running
    /\ IF sql # "" /\ ~IsTransactionControl(sql) /\ ~engineOk
         THEN \* Engine.ProcessQuery failed: the error waits for Sync
              /\ extErr' = TRUE
              /\ out' = <<>>
              /\ UNCHANGED stmts
       ELSE /\ engineOk
            /\ stmts' = [n \in DOMAIN stmts \cup {name} |->
                           IF n = name THEN PreparedStmt(sql) ELSE stmts[n]]
            /\ out' = <<Msg("ParseComplete", "")>>
            /\ UNCHANGED extErr
    /\ UNCHANGED <<tx, txStatus, upstreamTx, portals, running, branchVars, cowVars, proxyVars, storeVars, taskVars>>

handleBind(portalName, stmtName) ==
    /\ running
    /\ IF stmtName \notin DOMAIN stmts
         THEN extErr' = TRUE /\ out' = <<>> /\ UNCHANGED portals
       ELSE /\ portals' = [n \in DOMAIN portals \cup {portalName} |->
                             IF n = portalName THEN stmts[stmtName] ELSE portals[n]]
            /\ out' = <<Msg("BindComplete", "")>>
            /\ UNCHANGED extErr
    /\ UNCHANGED <<tx, txStatus, upstreamTx, stmts, running, branchVars, cowVars, proxyVars, storeVars, taskVars>>

handleDescribe(descType, name) ==
    /\ running
    /\ IF descType = "S" /\ name \in DOMAIN stmts
         THEN /\ out' = <<Msg("ParameterDescription", ""), Msg("NoData", "")>>
              /\ UNCHANGED extErr
       ELSE IF descType = "P" /\ name \in DOMAIN portals
         THEN out' = <<Msg("NoData", "")>> /\ UNCHANGED extErr
       ELSE extErr' = TRUE /\ out' = <<>>
    /\ UNCHANGED <<tx, txStatus, upstreamTx, stmts, portals, running, branchVars, cowVars, proxyVars, storeVars, taskVars>>

handleExtBegin(txOk) ==
    IF tx
      THEN /\ txOk
           /\ out' = <<CommandComplete("BEGIN")>>
           /\ UNCHANGED <<tx, txStatus, upstreamTx, extErr>>
    ELSE IF ~txOk
      THEN extErr' = TRUE /\ out' = <<>> /\ UNCHANGED <<tx, txStatus, upstreamTx>>
    ELSE /\ upstreamTx < MaxConns
         /\ tx' = TRUE /\ txStatus' = "T" /\ upstreamTx' = upstreamTx + 1
         /\ out' = <<CommandComplete("BEGIN")>>
         /\ UNCHANGED extErr

\* an end of transaction that returns the error of Commit or Rollback
\* before it releases the handle
handleExtEnd_KeepTxOnError(tag, txOk) ==
    IF ~tx
      THEN /\ txOk
           /\ out' = <<CommandComplete(tag)>>
           /\ UNCHANGED <<tx, txStatus, upstreamTx, extErr>>
    ELSE IF ~txOk
      THEN extErr' = TRUE /\ out' = <<>> /\ UNCHANGED <<tx, txStatus, upstreamTx>>
    ELSE /\ tx' = FALSE /\ txStatus' = "I" /\ upstreamTx' = EndTx(upstreamTx)
         /\ out' = <<CommandComplete(tag)>> /\ UNCHANGED extErr

\* handleExtCommit and handleExtRollback differ in the tag only
handleExtEnd(tag, txOk) ==
    IF ~tx
      THEN /\ txOk
           /\ out' = <<CommandComplete(tag)>>
           /\ UNCHANGED <<tx, txStatus, upstreamTx, extErr>>
    ELSE /\ tx' = FALSE /\ txStatus' = "I" /\ upstreamTx' = EndTx(upstreamTx)
         /\ IF txOk THEN out' = <<CommandComplete(tag)>> /\ UNCHANGED extErr
            ELSE extErr' = TRUE /\ out' = <<>>

handleExtCommit(txOk) == handleExtEnd("COMMIT", txOk)
handleExtRollback(txOk) == handleExtEnd("ROLLBACK", txOk)

\* Session.executeExtStatements: an error of the upstream when a statement
\* is submitted waits for Sync; an error of sendQueryResult is returned to
\* HandleMessages, which ends the session
executeExtStatements(processed, outcome) ==
    /\ outcome = "rowsErr" => processed.Type = "select"
    /\ IF outcome = "submitErr"
         THEN /\ txStatus' = IF txStatus = "T" THEN "E" ELSE txStatus
              /\ extErr' = TRUE
              /\ out' = <<>>
              /\ UNCHANGED <<tx, upstreamTx, running>>
       ELSE IF outcome = "rowsErr"
         THEN /\ out' = <<Msg("RowDescription", "")>>
              /\ Cleanup
              /\ UNCHANGED <<txStatus, extErr>>
       ELSE /\ upstreamTx' = PassthroughTx(processed.sql, tx, upstreamTx)
            /\ out' = IF processed.Type = "select"
                        THEN <<Msg("RowDescription", ""), CommandComplete("SELECT")>>
                      ELSE <<CommandComplete(processed.sql)>>
            /\ UNCHANGED <<tx, txStatus, extErr, running>>

handleExecute(portalName, outcome, txOk) ==
    /\ running
    /\ IF portalName \notin DOMAIN portals
         THEN /\ outcome = "ok" /\ txOk
              /\ extErr' = TRUE /\ out' = <<>>
              /\ UNCHANGED <<tx, txStatus, upstreamTx, running>>
       ELSE LET p == portals[portalName]
            IN  IF p.sql = ""
                  THEN /\ outcome = "ok" /\ txOk
                       /\ out' = <<Msg("EmptyQueryResponse", "")>>
                       /\ UNCHANGED <<tx, txStatus, upstreamTx, extErr, running>>
                ELSE IF isBegin(p.sql)
                  THEN outcome = "ok" /\ handleExtBegin(txOk) /\ UNCHANGED running
                ELSE IF isCommit(p.sql)
                  THEN outcome = "ok" /\ handleExtCommit(txOk) /\ UNCHANGED running
                ELSE IF isRollback(p.sql)
                  THEN outcome = "ok" /\ handleExtRollback(txOk) /\ UNCHANGED running
                ELSE txOk /\ executeExtStatements(p, outcome)
    /\ UNCHANGED <<stmts, portals, branchVars, cowVars, proxyVars, storeVars, taskVars>>

handleClose(closeType, name) ==
    /\ running
    /\ IF closeType = "S"
         THEN stmts' = [n \in DOMAIN stmts \ {name} |-> stmts[n]] /\ UNCHANGED portals
       ELSE IF closeType = "P"
         THEN portals' = [n \in DOMAIN portals \ {name} |-> portals[n]] /\ UNCHANGED stmts
       ELSE UNCHANGED <<stmts, portals>>
    /\ out' = <<Msg("CloseComplete", "")>>
    /\ UNCHANGED <<tx, txStatus, upstreamTx, extErr, running, branchVars, cowVars, proxyVars, storeVars, taskVars>>

handleSync ==
    /\ running
    /\ out' = IF extErr THEN <<ErrorResponse, ReadyForQuery(txStatus)>>
              ELSE <<ReadyForQuery(txStatus)>>
    /\ extErr' = FALSE
    /\ UNCHANGED <<tx, txStatus, upstreamTx, stmts, portals, running, branchVars, cowVars, proxyVars, storeVars, taskVars>>

\* Terminate: HandleMessages returns, the deferred Cleanup runs
Terminate ==
    /\ running
    /\ Cleanup
    /\ out' = <<>>
    /\ UNCHANGED <<txStatus, stmts, portals, extErr, branchVars, cowVars, proxyVars, storeVars, taskVars>>

\* Session.dispatchMessage, case MsgFlush: nothing is done
dispatchFlush ==
    /\ running
    /\ out' = <<>>
    /\ UNCHANGED <<tx, txStatus, upstreamTx, stmts, portals, extErr, running,
                   branchVars, cowVars, proxyVars, storeVars, taskVars>>

\* Session.dispatchMessage, default case: a message of any other type is
\* answered with ReadyForQuery and the loop of HandleMessages goes on
dispatchDefault ==
    /\ running
    /\ out' = <<ReadyForQuery(txStatus)>>
    /\ UNCHANGED <<tx, txStatus, upstreamTx, stmts, portals, extErr, running,
                   branchVars, cowVars, proxyVars, storeVars, taskVars>>

DescribeTypes == {"S", "P", "X"}

InitSession ==
    /\ impl = "store"
    /\ branches = (MainName :> MainBranch) @@ (Dev :> NewBranch(MainName, {}, 0))
    /\ schemas = {BranchSchemaName(Dev)}
    /\ now = 0
    /\ err = "ok"
    /\ NoTraffic
    /\ NewSession
    /\ StartedProxy
    /\ Migrated
    /\ NoTasks

NextSession ==
    \/ \E sql \in SQLTexts, engineOk \in BOOLEAN, outcome \in Outcomes, txOk \in BOOLEAN :
          handleSimpleQuery(sql, engineOk, outcome, txOk)
    \/ \E name \in StmtNames, sql \in SQLTexts, engineOk \in BOOLEAN :
          handleParse(name, sql, engineOk)
    \/ \E portalName \in PortalNames, stmtName \in StmtNames :
          handleBind(portalName, stmtName)
    \/ \E descType \in DescribeTypes, name \in StmtNames \cup PortalNames :
          handleDescribe(descType, name)
    \/ \E portalName \in PortalNames, outcome \in Outcomes, txOk \in BOOLEAN :
          handleExecute(portalName, outcome, txOk)
    \/ \E closeType \in DescribeTypes, name \in StmtNames \cup PortalNames :
          handleClose(closeType, name)
    \/ handleSync
    \/ dispatchFlush
    \/ dispatchDefault
    \/ Terminate

SpecSession == InitSession /\ [][NextSession]_vars

(***************************************************************************)
(* Session: claims                                                         *)
(***************************************************************************)

\* a BEGIN arrives, as a simple Query or as the Execute of a portal bound to
\* BEGIN
BeginReceived ==
    \/ \E txOk \in BOOLEAN : handleSimpleQuery("BEGIN", TRUE, "ok", txOk)
    \/ \E portalName \in DOMAIN portals, txOk \in BOOLEAN :
          /\ isBegin(portals[portalName].sql)
          /\ handleExecute(portalName, "ok", txOk)

\* C9: at every point of a session's life at most one upstream transaction
\* opened on its behalf is live, and a BEGIN received while a transaction is
\* held does not open another, for any interleaving of simple-query and
\* extended-protocol BEGIN, COMMIT and ROLLBACK.
Thm_C9_OneUpstreamTx ==
    /\ [](upstreamTx <= 1)
    /\ [][(tx /\ BeginReceived) => upstreamTx' = upstreamTx /\ tx']_vars

\* a BEGIN has just been answered in the Failed status: it arrived while the
\* session held its transaction
Witness_C9 ==
    /\ tx /\ upstreamTx = 1 /\ txStatus = "E"
    /\ out = <<CommandComplete("BEGIN"), ReadyForQuery("E")>>

\* the upstream reports an error for a statement of a simple Query
UpstreamErrorInSimpleQuery ==
    \E sql \in SQLTexts \ {""}, outcome \in {"submitErr", "rowsErr"} :
        /\ ~isBegin(sql) /\ ~isCommit(sql) /\ ~isRollback(sql)
        /\ handleSimpleQuery(sql, TRUE, outcome, TRUE)

\* C10: whenever the upstream reports an error while executing a statement
\* of a simple Query (when it is submitted or while its rows are read) and
\* the session is InTx, the status becomes Failed and the ErrorResponse is
\* followed by a ReadyForQuery carrying Failed.
CE_C10_UpstreamErrorFailsTx ==
    [][(txStatus = "T" /\ UpstreamErrorInSimpleQuery) =>
          /\ txStatus' = "E"
          /\ Len(out') >= 2
          /\ out'[Len(out') - 1] = ErrorResponse
          /\ out'[Len(out')] = ReadyForQuery("E")]_vars

\* the engine fails to process the text of a simple Query or of a Parse: a
\* parse error, a table without a primary key, an unknown table
RewriteFailure ==
    \/ \E sql \in SQLTexts : handleSimpleQuery(sql, FALSE, "ok", TRUE)
    \/ \E name \in StmtNames, sql \in SQLTexts : handleParse(name, sql, FALSE)

\* C11: when the engine fails to process a statement at rewrite time while
\* the session is InTx, the session stays open, the error is reported as a
\* non-fatal ErrorResponse and the status becomes Failed.
CE_C11_RewriteFailureFailsTx ==
    [][(txStatus = "T" /\ RewriteFailure) => running' /\ txStatus' = "E"]_vars

\* a simple Query is handled, whatever its text and whatever fails
SimpleQueryHandled ==
    \E sql \in SQLTexts, engineOk \in BOOLEAN, outcome \in Outcomes, txOk \in BOOLEAN :
        handleSimpleQuery(sql, engineOk, outcome, txOk)

ReadyCount(msgs) == Cardinality({i \in DOMAIN msgs : msgs[i].type = "ReadyForQuery"})

\* C12: the reply to every simple Query (empty, transaction control,
\* successful, failing at rewrite or at execution) holds exactly one
\* ReadyForQuery, as its last message, carrying the transaction status of
\* the session at that moment.
Thm_C12_OneReadyForQuery ==
    [][SimpleQueryHandled =>
          /\ ReadyCount(out') = 1
          /\ out'[Len(out')] = ReadyForQuery(txStatus')]_vars

\* the rows of a SELECT inside a transaction failed while they were read:
\* the reply still ends with the one ReadyForQuery
Witness_C12 ==
    /\ txStatus = "T"
    /\ out = <<Msg("RowDescription", ""), ErrorResponse, ReadyForQuery("T")>>


\* Parse, Bind, Describe or Execute raises an error: the engine rejects the
\* text, a statement or portal is unknown, the pool gives no transaction,
\* the upstream fails when the statement is submitted or while its rows are
\* read
ExtErrorRaised ==
    \/ \E name \in StmtNames, sql \in SQLTexts : handleParse(name, sql, FALSE)
    \/ \E portalName \in PortalNames, stmtName \in StmtNames \ DOMAIN stmts :
          handleBind(portalName, stmtName)
    \/ \E descType \in DescribeTypes, name \in StmtNames \cup PortalNames :
          /\ ~(descType = "S" /\ name \in DOMAIN stmts)
          /\ ~(descType = "P" /\ name \in DOMAIN portals)
          /\ handleDescribe(descType, name)
    \/ \E portalName \in PortalNames, outcome \in Outcomes, txOk \in BOOLEAN :
          /\ portalName \notin DOMAIN portals \/ outcome # "ok" \/ ~txOk
          /\ handleExecute(portalName, outcome, txOk)

\* C13: an error raised while handling Parse, Bind, Describe or Execute
\* produces no ErrorResponse and waits in the slot for the next Sync; that
\* Sync sends one ErrorResponse followed by ReadyForQuery and clears the
\* slot, so that a Sync with an empty slot sends only ReadyForQuery.
CE_C13_ErrorDeferredToSync ==
    /\ [][ExtErrorRaised =>
             /\ running' /\ extErr'
             /\ \A i \in DOMAIN out' : out'[i] # ErrorResponse]_vars
    /\ [][handleSync =>
             /\ ~extErr'
             /\ out' = IF extErr THEN <<ErrorResponse, ReadyForQuery(txStatus)>>
                       ELSE <<ReadyForQuery(txStatus)>>]_vars


\* C14: on one connection the backend messages of a frontend message are
\* all written before any backend message of a later one, also when the
\* earlier one ended in an error: while the error of an earlier message
\* still waits to be written, nothing is written for a later message
\* before that ErrorResponse.
CE_C14_RepliesInArrivalOrder ==
    [][(running /\ extErr) => (out' = <<>> \/ out'[1] = ErrorResponse)]_vars


\* C15: a frontend message of a type the session does not handle is
\* answered with a fatal ErrorResponse and the session is closed, so that
\* no further message of the client is processed.
CE_C15_UnknownMessageClosesSession ==
    [][dispatchDefault =>
          /\ ~running'
          /\ \E i \in DOMAIN out' : out'[i].type = "ErrorResponse"]_vars


(***************************************************************************)
(* SpecProxy: the listener, the per-connection tasks and Stop              *)
(***************************************************************************)
\* the database of the startup message: main, a branch, no branch
Databases == {MainName, Dev, NameUnderscore}

\* how the handshake ends: the startup message cannot be read, the password
\* message cannot be read, the authenticate hook rejects, or all is well
HandshakeOutcomes == {"badStartup", "badPassword", "rejected", "ok"}

ErrCodeInsufficientPrivilege == "42501"
ErrCodeInvalidCatalogName == "3D000"
ErrCodeConnectionFailure == "08006"

\* ClientConn.SendError("FATAL", code, ...)
FatalError(code) == Msg("ErrorResponse", code)
AuthenticationCleartextPassword == Msg("Authentication", "CleartextPassword")
AuthenticationOk == Msg("Authentication", "Ok")

\* ClientConn.sendPostAuthMessages
sendPostAuthMessages ==
    <<AuthenticationOk, Msg("BackendKeyData", ""), Msg("ParameterStatus", ""),
      ReadyForQuery("I")>>

\* acceptLoop: Accept returns the next connection
AcceptConn(c) ==
    /\ acceptPc = "accept" /\ listener = "open"
    /\ conns[c].pc = "none"
    /\ \A d \in Clients : d < c => conns[d].pc # "none"
    /\ acceptPc' = "check" /\ accepted' = c
    /\ conns' = [conns EXCEPT ![c].pc = "accepted"]
    /\ UNCHANGED <<listener, connCount, wg, connections, stopPc>>
    /\ UNCHANGED <<branchVars, cowVars, sessVars, storeVars, taskVars>>

\* acceptLoop: Accept fails on the closed listener; Stop cancelled the
\* context before it closed the listener, so the loop returns
AcceptClosed ==
    /\ acceptPc = "accept" /\ listener = "closed"
    /\ acceptPc' = "done" /\ wg' = wg - 1
    /\ UNCHANGED <<listener, accepted, conns, connCount, connections, stopPc>>
    /\ UNCHANGED <<branchVars, cowVars, sessVars, storeVars, taskVars>>

\* acceptLoop: the check of max connections, then the task is started
CheckMaxConnections ==
    /\ acceptPc = "check"
    /\ IF MaxConnections > 0 /\ connCount >= MaxConnections
         THEN /\ conns' = [conns EXCEPT ![accepted].pc = "rejected",
                                        ![accepted].client = "closed"]
              /\ UNCHANGED wg
       ELSE /\ conns' = [conns EXCEPT ![accepted].pc = "spawned"]
            /\ wg' = wg + 1
    /\ acceptPc' = "accept" /\ accepted' = 0
    /\ UNCHANGED <<listener, connCount, connections, stopPc>>
    /\ UNCHANGED <<branchVars, cowVars, sessVars, storeVars, taskVars>>

\* handleConnection up to the handshake: the connection is counted
StartConnection(c) ==
    /\ conns[c].pc = "spawned"
    /\ connCount' = connCount + 1
    /\ conns' = [conns EXCEPT ![c].pc = "handshake"]
    /\ UNCHANGED <<listener, acceptPc, accepted, wg, connections, stopPc>>
    /\ UNCHANGED <<branchVars, cowVars, sessVars, storeVars, taskVars>>

\* handleConnection returns: its deferred functions run
Return(c, r) ==
    /\ conns' = [conns EXCEPT ![c] =
                    [r EXCEPT !.pc = "done", !.client = "closed",
                              !.upstream = IF r.upstream = "open" THEN "closed"
                                           ELSE r.upstream]]
    /\ connCount' = connCount - 1
    /\ connections' = connections \ {c}
    /\ wg' = wg - 1

\* Handshake that goes on after the authenticate hook rejected
Handshake_IgnoreReject(c, database, outcome) ==
    /\ conns[c].pc = "handshake"
    /\ outcome \in {"rejected", "ok"}
    /\ conns' = [conns EXCEPT ![c] =
                   [@ EXCEPT !.pc = "resolve", !.database = database,
                             !.sent = IF outcome = "rejected"
                                        THEN <<AuthenticationCleartextPassword,
                                               FatalError(ErrCodeInsufficientPrivilege)>>
                                             \o sendPostAuthMessages
                                      ELSE <<AuthenticationCleartextPassword>>
                                             \o sendPostAuthMessages]]
    /\ UNCHANGED <<connCount, connections, wg>>
    /\ UNCHANGED <<listener, acceptPc, accepted, stopPc>>
    /\ UNCHANGED <<branchVars, cowVars, sessVars, storeVars, taskVars>>

\* ClientConn.Handshake with the authenticate hook of the server, and what
\* handleConnection does with its error
Handshake(c, database, outcome) ==
    /\ conns[c].pc = "handshake"
    /\ IF outcome = "badStartup"
         THEN \* readStartup failed: nothing is known of the connection
              /\ database = MainName
              /\ Return(c, conns[c])
       ELSE IF outcome = "badPassword"
         THEN Return(c, [conns[c] EXCEPT !.database = database,
                             !.sent = <<AuthenticationCleartextPassword>>])
       ELSE IF outcome = "rejected"
         THEN \* authenticateClient: the hook returned an error
              Return(c, [conns[c] EXCEPT !.database = database,
                             !.sent = <<AuthenticationCleartextPassword,
                                        FatalError(ErrCodeInsufficientPrivilege)>>])
       ELSE /\ conns' = [conns EXCEPT ![c] =
                           [@ EXCEPT !.pc = "resolve", !.database = database,
                                     !.sent = <<AuthenticationCleartextPassword>>
                                                \o sendPostAuthMessages]]
            /\ UNCHANGED <<connCount, connections, wg>>
    /\ UNCHANGED <<listener, acceptPc, accepted, stopPc>>
    /\ UNCHANGED <<branchVars, cowVars, sessVars, storeVars, taskVars>>

\* the OnConnect hook of the server: main and the empty name are passed on,
\* a branch must exist
OnConnect(c) ==
    /\ conns[c].pc = "resolve"
    /\ LET r == [conns[c] EXCEPT !.onConnect = TRUE]
       IN  IF r.database \notin {MainName, EmptyName} /\ r.database \notin DOMAIN branches
             THEN Return(c, [r EXCEPT !.sent = @ \o <<FatalError(ErrCodeInvalidCatalogName)>>])
           ELSE /\ conns' = [conns EXCEPT ![c] = [r EXCEPT !.pc = "connect"]]
                /\ UNCHANGED <<connCount, connections, wg>>
    /\ UNCHANGED <<listener, acceptPc, accepted, stopPc>>
    /\ UNCHANGED <<branchVars, cowVars, sessVars, storeVars, taskVars>>

\* handleConnection: connectUpstream for the resolved database, whatever it
\* is, then the session is stored
connectUpstream(c, dialOk) ==
    /\ conns[c].pc = "connect"
    /\ IF dialOk
         THEN /\ conns' = [conns EXCEPT ![c].pc = "proxy", ![c].upstream = "open"]
              /\ connections' = connections \cup {c}
              /\ UNCHANGED <<connCount, wg>>
       ELSE Return(c, [conns[c] EXCEPT
                          !.sent = @ \o <<FatalError(ErrCodeConnectionFailure)>>])
    /\ UNCHANGED <<listener, acceptPc, accepted, stopPc>>
    /\ UNCHANGED <<branchVars, cowVars, sessVars, storeVars, taskVars>>

\* proxyTraffic returns: one side closed its socket, Stop closed them or
\* the context was cancelled
proxyTraffic(c) ==
    /\ conns[c].pc = "proxy"
    /\ Return(c, conns[c])
    /\ UNCHANGED <<listener, acceptPc, accepted, stopPc>>
    /\ UNCHANGED <<branchVars, cowVars, sessVars, storeVars, taskVars>>

\* Stop: closed is set, the context is cancelled, the listener is closed
StopClose ==
    /\ stopPc = "idle"
    /\ stopPc' = "closing"
    /\ listener' = "closed"
    /\ UNCHANGED <<acceptPc, accepted, conns, connCount, wg, connections>>
    /\ UNCHANGED <<branchVars, cowVars, sessVars, storeVars, taskVars>>

\* Stop: the sockets of the stored sessions are closed
StopCloseConnections ==
    /\ stopPc = "closing"
    /\ stopPc' = "waiting"
    /\ conns' = [c \in Clients |->
                   IF c \in connections
                     THEN [conns[c] EXCEPT !.client = "closed", !.upstream = "closed"]
                   ELSE conns[c]]
    /\ UNCHANGED <<listener, acceptPc, accepted, connCount, wg, connections>>
    /\ UNCHANGED <<branchVars, cowVars, sessVars, storeVars, taskVars>>

\* Stop that does not wait for the tasks
StopWait_NoWait ==
    /\ stopPc = "waiting"
    /\ stopPc' = "returned"
    /\ UNCHANGED <<listener, acceptPc, accepted, conns, connCount, wg, connections>>
    /\ UNCHANGED <<branchVars, cowVars, sessVars, storeVars, taskVars>>

\* Stop: wg.Wait returns, then Stop does
StopWait ==
    /\ stopPc = "waiting"
    /\ wg = 0
    /\ stopPc' = "returned"
    /\ UNCHANGED <<listener, acceptPc, accepted, conns, connCount, wg, connections>>
    /\ UNCHANGED <<branchVars, cowVars, sessVars, storeVars, taskVars>>

InitProxy ==
    /\ impl = "store"
    /\ branches = (MainName :> MainBranch) @@ (Dev :> NewBranch(MainName, {}, 0))
    /\ schemas = {BranchSchemaName(Dev)}
    /\ now = 0
    /\ err = "ok"
    /\ NoTraffic
    /\ NewSession
    /\ StartedProxy
    /\ Migrated
    /\ NoTasks

NextProxy ==
    \/ \E c \in Clients : AcceptConn(c)
    \/ AcceptClosed
    \/ CheckMaxConnections
    \/ \E c \in Clients : StartConnection(c)
    \/ \E c \in Clients, database \in Databases, outcome \in HandshakeOutcomes :
          Handshake(c, database, outcome)
    \/ \E c \in Clients : OnConnect(c)
    \/ \E c \in Clients, dialOk \in BOOLEAN : connectUpstream(c, dialOk)
    \/ \E c \in Clients : proxyTraffic(c)
    \/ StopClose
    \/ StopCloseConnections
    \/ StopWait

SpecProxy == InitProxy /\ [][NextProxy]_vars

(***************************************************************************)
(* Proxy: claims                                                           *)
(***************************************************************************)

\* the connections a task handles: started and not yet returned
Handled == {c \in Clients : conns[c].pc \in {"handshake", "resolve", "connect", "proxy"}}

\* C16: with max_connections = N > 0 never more than N client connections
\* are handled at the same time, for every interleaving of the accept loop
\* and the tasks.
CE_C16_AtMostMaxConnections ==
    Cardinality(Handled) <= MaxConnections


\* C17: when Stop returns the listener is closed, no further connection is
\* accepted, the client socket and the upstream socket of every accepted
\* connection are closed and no per-connection task is still running.
Thm_C17_StopLeavesNothingRunning ==
    /\ [](stopPc = "returned" =>
             /\ listener = "closed" /\ acceptPc = "done" /\ wg = 0
             /\ \A c \in Clients :
                   /\ conns[c].pc \in {"none", "rejected", "done"}
                   /\ conns[c].pc # "none" =>
                         conns[c].client = "closed" /\ conns[c].upstream # "open")
    /\ [][stopPc = "returned" =>
             \A c \in Clients : conns[c].pc = "none" => conns'[c].pc = "none"]_vars

\* Stop has returned after a spliced connection and a connection that was
\* still in its handshake when the listener was closed
Witness_C17 ==
    /\ stopPc = "returned"
    /\ \E c \in Clients : conns[c].pc = "done" /\ conns[c].upstream = "closed"
    /\ \E c \in Clients : conns[c].pc = "done" /\ conns[c].upstream = "none"

\* C18: for a connection whose database is neither main nor empty the proxy
\* opens no upstream TCP connection; only the connections to main or to the
\* empty name are spliced to the upstream.
CE_C18_BranchConnectionNotSpliced ==
    \A c \in Clients :
        conns[c].database \notin {MainName, EmptyName} => conns[c].upstream = "none"

\* the authenticate hook rejected the connection
Rejected(c) ==
    \E i \in DOMAIN conns[c].sent :
        conns[c].sent[i] = FatalError(ErrCodeInsufficientPrivilege)

\* C19: when the authenticate hook rejects, the client receives a fatal
\* ErrorResponse with code 42501 and the connection is closed, without
\* AuthenticationOk or ReadyForQuery, without a call of on_connect and
\* without an upstream connection or a session.
Thm_C19_RejectedAuthentication ==
    /\ [](\A c \in Clients : Rejected(c) =>
             /\ \A i \in DOMAIN conns[c].sent :
                   /\ conns[c].sent[i] # AuthenticationOk
                   /\ conns[c].sent[i].type # "ReadyForQuery"
             /\ ~conns[c].onConnect
             /\ conns[c].upstream = "none"
             /\ c \notin connections
             /\ conns[c].pc = "done" /\ conns[c].client = "closed")
    /\ [][\A c \in Clients, database \in Databases :
             Handshake(c, database, "rejected") =>
                /\ conns'[c].sent[Len(conns'[c].sent)]
                      = FatalError(ErrCodeInsufficientPrivilege)
                /\ conns'[c].client = "closed"]_vars

\* a client was turned away by the hook after it sent its password
Witness_C19 ==
    \E c \in Clients :
        /\ conns[c].pc = "done"
        /\ conns[c].sent = <<AuthenticationCleartextPassword,
                             FatalError(ErrCodeInsufficientPrivilege)>>


(***************************************************************************)
(* Query traffic: INSERT after DELETE                                      *)
(***************************************************************************)
\* the INSERT statements clients send on a branch, with and without a
\* column list
InsertStmts == {InsertUsers(MaxPK, "b"), InsertValuesUsers(MaxPK, "c")}

\* the rows of primary key pk in the view of a branch
ViewOf(shadow, base, pk) == {r \in Merge(shadow, base) : r.id = pk}

\* C20: after INSERT(pk = k); DELETE(pk = k); INSERT(pk = k) on a tracked
\* table the view of the branch holds exactly one row of primary key k,
\* with the values of the last INSERT, whether or not the INSERTs name
\* their target columns.  The row of k is on the branch only (the source
\* has none) and is tombstoned when the last INSERT arrives.
CE_C20_InsertDeleteInsert ==
    [][\A st \in InsertStmts :
          (/\ result'.branch = Dev /\ result'.status = "complete"
           /\ \E r \in ShadowRows(Dev) : r.id = st.pk /\ r.tomb
           /\ ~\E r \in source : r.id = st.pk
           /\ Query(Dev, <<st>>, "none"))
          => ViewOf(overlay'[BranchSchemaName(Dev)].rows, source', st.pk)
                = {Row(st.pk, st.val)}]_vars


(***************************************************************************)
(* SpecMerge: Engine.Diff, Engine.GenerateMerge and the generated merge    *)
(***************************************************************************)
\* PgStore.ListTrackedTables: the tracked tables of a branch
ListTrackedTables(trk, branchName) == IF branchName \in trk THEN {"users"} ELSE {}

Live(shadow) == {r \in shadow : ~r.tomb}
InSource(base, r) == \E x \in base : x.id = r.id

\* DiffTable that counts every live shadow row as an update
DiffTable_AllLiveUpdates(db, branchSchema) ==
    LET t == db.overlay[branchSchema]
    IN  IF ~t.exists \/ ~HasCol(t, TombstoneCol) THEN [err |-> TRUE]
        ELSE [err |-> FALSE, TableName |-> "users",
              Deletes |-> Cardinality({r \in t.rows : r.tomb}),
              Inserts |-> Cardinality({r \in Live(t.rows) : ~InSource(db.source, r)}),
              Updates |-> Cardinality(Live(t.rows))]

\* DiffTable: three COUNT(*) queries on the shadow table
DiffTable(db, branchSchema) ==
    LET t == db.overlay[branchSchema]
    IN  IF ~t.exists \/ ~HasCol(t, TombstoneCol) THEN [err |-> TRUE]
        ELSE [err |-> FALSE, TableName |-> "users",
              Deletes |-> Cardinality({r \in t.rows : r.tomb}),
              Inserts |-> Cardinality({r \in Live(t.rows) : ~InSource(db.source, r)}),
              Updates |-> Cardinality({r \in Live(t.rows) : InSource(db.source, r)})]

\* Engine.Diff: one TableDiff for each tracked table
EngineDiff(db, trk, branchName) ==
    LET tds == {DiffTable(db, BranchSchemaName(branchName)) :
                  t \in ListTrackedTables(trk, branchName)}
    IN  IF \E td \in tds : td.err
          THEN [branch |-> branchName, status |-> "error", Tables |-> {}]
        ELSE [branch |-> branchName, status |-> "ok", Tables |-> tds]

\* GenerateMergeSQL without the UPDATE statement
GenerateMergeSQL_NoUpdate(branchSchema) ==
    <<"BEGIN", "DELETE", "INSERT", "COMMIT">>

\* GenerateMergeSQL: the statements, read from the table names alone
GenerateMergeSQL(branchSchema) ==
    <<"BEGIN", "DELETE", "UPDATE", "INSERT", "COMMIT">>

\* Engine.GenerateMerge: one MergeSQL for each tracked table
EngineGenerateMerge(trk, branchName) ==
    {[TableName |-> t, Statements |-> GenerateMergeSQL(BranchSchemaName(branchName))] :
        t \in ListTrackedTables(trk, branchName)}

\* what the upstream does with one statement of the merge, on the rows the
\* transaction sees
\*   DELETE FROM src WHERE EXISTS (SELECT 1 FROM ovr WHERE pk = pk AND ovr._rift_tombstone)
\*   UPDATE src SET cols = ovr.cols FROM ovr WHERE pk = pk AND NOT ovr._rift_tombstone
\*   INSERT INTO src (cols) SELECT ovr.cols FROM ovr
\*     WHERE NOT ovr._rift_tombstone AND NOT EXISTS (SELECT 1 FROM src WHERE pk = pk)
ExecMergeStmt(stmt, work, shadow) ==
    CASE stmt = "DELETE" ->
           {r \in work : ~\E o \in shadow : o.id = r.id /\ o.tomb}
      [] stmt = "UPDATE" ->
           {IF \E o \in Live(shadow) : o.id = r.id
              THEN Row(r.id, (CHOOSE o \in Live(shadow) : o.id = r.id).val)
            ELSE r : r \in work}
      [] stmt = "INSERT" ->
           work \cup {Row(o.id, o.val) : o \in {x \in Live(shadow) : ~InSource(work, x)}}
      [] OTHER -> work

\* the contents of a source table and of a shadow table: one row for a
\* primary key at most
RowVals == {"a", "b"}
MergePKs == 1..(MaxPK + 1)
SourceTables ==
    {rows \in SUBSET {Row(pk, v) : pk \in MergePKs, v \in RowVals} : OnePerPK(rows)}
ShadowTables ==
    {rows \in SUBSET {ShadowRow(pk, v, tomb) : pk \in MergePKs, v \in RowVals,
                                               tomb \in BOOLEAN} : OnePerPK(rows)}

\* rift diff
Diff(branchName) ==
    /\ merge.status \notin {"generated", "running"}
    /\ diff' = EngineDiff([source |-> source, overlay |-> overlay, pkCache |-> pkCache], tracked, branchName)
    /\ UNCHANGED <<source, overlay, tracked, pkCache, result, merge>>
    /\ UNCHANGED <<branchVars, sessVars, proxyVars, storeVars, taskVars>>

\* rift merge: the statements are generated
GenerateMerge(branchName) ==
    /\ merge.status \notin {"generated", "running"}
    /\ \E ms \in {EngineGenerateMerge(tracked, branchName)} :
          merge' = IF ms = {} THEN [NoMerge EXCEPT !.branch = branchName, !.status = "empty"]
                   ELSE [branch |-> branchName, status |-> "generated",
                         Statements |-> (CHOOSE m \in ms : TRUE).Statements,
                         work |-> {}]
    /\ UNCHANGED <<source, overlay, tracked, pkCache, result, diff>>
    /\ UNCHANGED <<branchVars, sessVars, proxyVars, storeVars, taskVars>>

\* the next statement of the generated merge is executed on the upstream;
\* the source changes when the transaction commits
ExecuteMerge ==
    /\ merge.status \in {"generated", "running"}
    /\ LET stmt == Head(merge.Statements)
           t == overlay[BranchSchemaName(merge.branch)]
       IN  IF stmt = "BEGIN"
             THEN /\ merge' = [merge EXCEPT !.status = "running",
                                            !.Statements = Tail(@), !.work = source]
                  /\ UNCHANGED source
           ELSE IF stmt = "COMMIT"
             THEN /\ merge' = [merge EXCEPT !.status = "committed",
                                            !.Statements = <<>>, !.work = {}]
                  /\ source' = merge.work
           ELSE IF ~t.exists \/ ~HasCol(t, TombstoneCol)
             THEN \* the statement fails, the transaction is rolled back
                  /\ merge' = [merge EXCEPT !.status = "aborted",
                                            !.Statements = <<>>, !.work = {}]
                  /\ UNCHANGED source
           ELSE /\ merge' = [merge EXCEPT !.Statements = Tail(@),
                                          !.work = ExecMergeStmt(stmt, @, t.rows)]
                /\ UNCHANGED source
    /\ UNCHANGED <<overlay, tracked, pkCache, result, diff>>
    /\ UNCHANGED <<branchVars, sessVars, proxyVars, storeVars, taskVars>>

\* dev has written to users: its shadow table is complete and tracked
InitMerge ==
    /\ impl = "store"
    /\ branches = (MainName :> MainBranch) @@ (Dev :> NewBranch(MainName, {}, 0))
                    @@ (Feat :> NewBranch(Dev, {}, 0))
    /\ schemas = OverlaySchemas
    /\ now = 0
    /\ err = "ok"
    /\ source \in SourceTables
    /\ \E shadow \in ShadowTables :
          overlay = [sch \in OverlaySchemas |->
                       IF sch = BranchSchemaName(Dev)
                         THEN [exists |-> TRUE, cols |-> Append(SourceCols, TombstoneCol),
                               hasPK |-> TRUE, rows |-> shadow]
                       ELSE NoTable]
    /\ tracked = {Dev}
    /\ pkCache = {"users"}
    /\ result = NoResult
    /\ diff = NoDiff /\ merge = NoMerge
    /\ NewSession
    /\ StartedProxy
    /\ Migrated
    /\ NoTasks

NextMerge ==
    \/ \E branchName \in {Dev, Feat} : Diff(branchName)
    \/ \E branchName \in {Dev, Feat} : GenerateMerge(branchName)
    \/ ExecuteMerge

SpecMerge == InitMerge /\ [][NextMerge]_vars


(***************************************************************************)
(* Diff and merge: claims                                                  *)
(***************************************************************************)
\* C21: for a branch on which no write has taken effect (its shadow table
\* holds no row), Diff returns an empty table list and GenerateMerge returns
\* no tables.
CE_C21_NoWritesNoTables ==
    \A branchName \in {Dev, Feat} :
       ShadowRows(branchName) = {}
         => /\ EngineDiff([source |-> source, overlay |-> overlay, pkCache |-> pkCache],
                          tracked, branchName).Tables = {}
            /\ EngineGenerateMerge(tracked, branchName) = {}


\* C22: executing the statements of GenerateMerge in order leaves the source
\* table equal to the branch's effective view before the merge: tombstoned
\* PKs removed, live shadow rows overwriting or inserted, other rows kept.
Thm_C22_MergeYieldsBranchView ==
    [][(merge.status = "running" /\ merge'.status = "committed")
         => source' = Merge(ShadowRows(merge.branch), source)]_vars

\* a merge with a delete, an update and an insert is about to commit
Witness_C22 ==
    /\ merge.status = "running"
    /\ merge.Statements = <<"COMMIT">>
    /\ \E d, u, i \in ShadowRows(Dev) :
          /\ d.tomb /\ InSource(source, d)
          /\ ~u.tomb /\ InSource(source, u) /\ Row(u.id, u.val) \notin source
          /\ ~i.tomb /\ ~InSource(source, i)
    /\ merge.work = Merge(ShadowRows(Dev), source)
    /\ merge.work # source


\* C23: for every tracked table Diff reports deletes = the tombstone shadow
\* rows, inserts = the live shadow rows whose PK is absent from the source,
\* updates = the live shadow rows whose PK is in the source, so that every
\* shadow row is counted in exactly one of the three.
Thm_C23_DiffCountsPartition ==
    [][(diff' # diff /\ diff'.status = "ok")
         => \A td \in diff'.Tables :
              LET shadow == ShadowRows(diff'.branch)
                  ids(rows) == {r.id : r \in rows}
              IN  /\ td.Deletes = Cardinality(ids(shadow \ Live(shadow)))
                  /\ td.Inserts = Cardinality(ids(Live(shadow)) \ ids(source))
                  /\ td.Updates = Cardinality(ids(Live(shadow)) \cap ids(source))
                  /\ td.Deletes + td.Inserts + td.Updates = Cardinality(shadow)]_vars

\* Diff reported one delete, one update and one insert
Witness_C23 ==
    /\ merge.status = "none"
    /\ diff.status = "ok"
    /\ diff.branch = Dev
    /\ Cardinality(ShadowRows(Dev)) = 3
    /\ \E td \in diff.Tables : td.Deletes = 1 /\ td.Updates = 1 /\ td.Inserts = 1


\* the step processed a SELECT on a branch: only a SELECT is answered with
\* rows, and a SELECT that failed was the one on users
SelectProcessed ==
    /\ result'.branch # MainName
    /\ result'.sel \/ result'.status = "rows"

\* C27: processing a SELECT on a branch never creates a shadow table, a
\* tracked-table entry or a PK-cache entry, whatever tables it references
\* and however often it is repeated.
Thm_C27_SelectCreatesNothing ==
    [][SelectProcessed => UNCHANGED <<overlay, tracked, pkCache>>]_vars

\* a SELECT on users was answered on a branch that has no shadow table, no
\* tracked table and an empty PK cache
Witness_C27 ==
    /\ result.sel /\ result.branch = Dev /\ result.status = "rows"
    /\ result.rows # {}
    /\ ~overlay[BranchSchemaName(Dev)].exists
    /\ Dev \notin tracked
    /\ pkCache = {}

(***************************************************************************)
(* Branch lifecycle: more claims                                           *)
(***************************************************************************)
\* C24: for every valid name n, CreateBranch(n) followed by DeleteBranch(n)
\* returns the branch rows and the set of overlay schemas to exactly the
\* state before the create: nothing of n remains, nothing of another branch
\* is removed.
CE_C24_CreateDeleteRoundTrip ==
    impl = "store" =>
      \A name \in NameInputs, parent \in DOMAIN branches, ttl \in TTLInputs :
         (ValidateBranchName(name) /\ name \notin DOMAIN branches)
           => LET \* Engine.CreateBranch succeeds
                  br1 == Put(branches, name, StoreBranchRow(parent, ttl, now))
                  sch1 == CreateBranchSchema(schemas, name)
                  \* Engine.DeleteBranch succeeds: the branch is new, so it is
                  \* unpinned and has no children
                  sch2 == DropBranchSchema(sch1, name)
                  br2 == StoreDeleteBranch(br1, name)
              IN  /\ ~br1[name].pinned /\ ~HasChildren(br1, name)
                  /\ br2 = branches
                  /\ sch2 = schemas


\* C26: GC removes and returns exactly the branches that have a TTL, are
\* unpinned and whose created_at plus TTL lies in the past, also for a TTL
\* below one second.  Checked for a branch that StorageBackedManager.Create
\* stores with the TTL the caller gave and that GC looks at at a time t.
CE_C26_GCExactlyExpired ==
    impl = "store" =>
      \A name \in NameInputs, parent \in DOMAIN branches, ttl \in TTLInputs \ {{}} :
         (ValidateBranchName(name) /\ name \notin DOMAIN branches)
           => LET br1 == Put(branches, name, StoreBranchRow(parent, ttl, now))
              IN  \A t \in now..MaxTime :
                     \* the branches StorageBackedManager.GC deletes at t
                     LET deleted == {n \in DOMAIN br1 : Expired(br1[n], t)}
                     IN  name \in deleted <=> t > now + TheTTL(ttl)

\* the step is a create_branch that returns an error
CreateBranchFailed ==
    /\ err' # "ok"
    /\ \E name \in NameInputs, parent \in ParentInputs, ttl \in TTLInputs,
          fail \in CreateFailures :
          \/ EngineCreateBranch(name, parent, ttl, fail)
          \/ SbmCreate(name, parent, ttl, fail)

\* C34: if create_branch fails at any step (name validation, parent lookup,
\* row insert, overlay schema creation), the set of branches is afterwards
\* the same as before the call.
CE_C34_FailedCreateLeavesNoRow ==
    [][CreateBranchFailed => branches' = branches]_vars

\* C40: the copy-in statement of the rewrite of an UPDATE or a DELETE, run
\* on its own, leaves the effective view of the branch (the merge of its
\* shadow table over the source) as it was.
Thm_C40_CopyInKeepsView ==
    \A branchName \in {Dev, Feat},
       st \in {UpdateUsers(pk, "b") : pk \in PKs} \cup {DeleteUsers(pk) : pk \in PKs} :
       LET db == [source |-> source, overlay |-> overlay, pkCache |-> pkCache]
           sch == BranchSchemaName(branchName)
           pq == Parse(<<st>>)
           rewritten == RewriteForBranch(pq, buildRewriteConfigs(db, tracked, branchName, pq))
           r == Exec(db, rewritten[1])
       IN  overlay[sch].exists
             => /\ Len(rewritten) = 2 /\ rewritten[1].op = "copy"
                /\ r.db.overlay[sch].exists
                /\ Merge(r.db.overlay[sch].rows, r.db.source) = Merge(overlay[sch].rows, source)

\* a DELETE on dev has copied row 1 in and made it a tombstone, and the
\* source holds another row that a copy-in would still bring in
Witness_C40 ==
    LET t == overlay[BranchSchemaName(Dev)]
    IN  /\ result.branch = Dev /\ result.status = "complete"
        /\ t.exists
        /\ \E r \in t.rows : r.tomb /\ Row(r.id, r.val) \in source
        /\ \E x \in source : ~\E r \in t.rows : r.id = x.id

(***************************************************************************)
(* Session: more claims                                                    *)
(***************************************************************************)
\* the texts that begin with BEGIN, with and without options
BeginTexts == {"BEGIN", "BEGIN WORK"}

\* C28: every simple Query whose text begins with BEGIN or START TRANSACTION,
\* with or without options, makes the session acquire a held upstream
\* transaction and report InTx.
CE_C28_BeginWithOptionsHoldsTx ==
    [][(/\ ~tx /\ txStatus = "I"
        /\ Len(out') = 2
        /\ out'[1].type = "CommandComplete" /\ out'[1].arg \in BeginTexts
        /\ out'[2].type = "ReadyForQuery")
         => tx' /\ txStatus' = "T" /\ out'[2] = ReadyForQuery("T")]_vars

\* C29: in every state of a session that is served the transaction status
\* is Idle exactly when no transaction handle is held, and InTx or Failed
\* exactly when one is held.
Thm_C29_StatusMatchesHandle ==
    running => /\ txStatus = "I" <=> ~tx
               /\ txStatus \in {"T", "E"} <=> tx

\* a failed statement inside a held transaction
Witness_C29 == running /\ tx /\ txStatus = "E" /\ upstreamTx > 0

\* the step handles a COMMIT or a ROLLBACK, as a simple Query or as the
\* Execute of a portal
EndReceived ==
    \E txOk \in BOOLEAN :
       \/ \E sql \in {"COMMIT", "ROLLBACK"} : handleSimpleQuery(sql, TRUE, "ok", txOk)
       \/ \E portalName \in DOMAIN portals :
             /\ isCommit(portals[portalName].sql) \/ isRollback(portals[portalName].sql)
             /\ handleExecute(portalName, "ok", txOk)

BindResolves(stmtName) == stmtName \in DOMAIN stmts

\* C31: after a Parse for statement name N fails, a Bind naming N does not
\* resolve to a statement stored under N by an earlier Parse (so that an
\* Execute of that cycle cannot run the earlier statement's SQL).
CE_C31_FailedParseUnbindsName ==
    [][\A name \in StmtNames, sql \in SQLTexts :
          (BindResolves(name) /\ handleParse(name, sql, FALSE))
            => ~BindResolves(name)']_vars

\* the step handles an Execute
ExecuteReceived ==
    \E portalName \in PortalNames, outcome \in Outcomes, txOk \in BOOLEAN :
       handleExecute(portalName, outcome, txOk)

\* C32: once a message of an extended-query cycle has recorded a deferred
\* error, no Execute received before the next Sync sends SQL to the
\* upstream: it opens or ends no transaction and no result of a statement is
\* written.
CE_C32_NoExecuteAfterDeferredError ==
    [][(running /\ extErr /\ ExecuteReceived)
         => /\ UNCHANGED <<tx, txStatus, upstreamTx>>
            /\ \A i \in DOMAIN out' :
                  out'[i].type \notin {"CommandComplete", "RowDescription"}]_vars

\* the step is an Execute during which the upstream fails, when the
\* statement is submitted or while its rows are read
UpstreamErrorInExecute ==
    \E portalName \in DOMAIN portals, outcome \in {"submitErr", "rowsErr"} :
       handleExecute(portalName, outcome, TRUE)

\* C33: an upstream error during an extended-protocol Execute, raised when
\* the statement is submitted or while result rows are read, never ends the
\* session: it is recorded as the deferred error and the session goes on.
CE_C33_ExecuteErrorKeepsSession ==
    [][UpstreamErrorInExecute => (running' /\ extErr')]_vars

(***************************************************************************)
(* SpecMigrate: PgStore.Init on one upstream, across restarts and releases *)
(***************************************************************************)
\* isMigrationApplied that finds no version applied
isMigrationApplied_Never(m, version) == FALSE

\* isMigrationApplied: false while _rift.schema_version does not exist
isMigrationApplied(m, version) ==
    IF ~m.exists THEN FALSE ELSE version \in m.schema_version

\* what can happen to a run: every statement succeeds, or one of them fails
MigrateOutcomes == {"commit", "check", "exec", "record"}

\* applyMigration: the SQL and the schema_version row in one transaction.
\* 001_init.sql creates _rift.schema_version; the INSERT fails without it.
applyMigration(m, version, outcome) ==
    LET exists1 == m.exists \/ version = 1
    IN  IF outcome = "commit" /\ exists1
          THEN [m EXCEPT !.exists = exists1,
                         !.schema_version = @ \cup {version},
                         !.executed = Append(@, version),
                         !.i = @ + 1]
        ELSE \* rolled back; runMigrations returns the error
             [m EXCEPT !.pc = "idle",
                       !.err = IF outcome = "commit" THEN "record" ELSE outcome]

\* PgStore.Init of a release: runMigrations reads and sorts the directory
StoreInit(release) ==
    /\ migrate.pc = "idle"
    /\ migrate' = [migrate EXCEPT !.release = release, !.pc = "loop",
                                  !.entries = SortByName(migrationFS(release)),
                                  !.i = 1, !.err = "none"]
    /\ UNCHANGED <<branchVars, cowVars, sessVars, proxyVars, taskVars>>

\* one iteration of the loop of runMigrations
runMigrations(outcome) ==
    /\ migrate.pc = "loop"
    /\ IF migrate.i > Len(migrate.entries)
         THEN /\ outcome = "commit"
              /\ migrate' = [migrate EXCEPT !.pc = "idle", !.err = "ok"]
       ELSE LET version == parseMigrationVersion(migrate.entries[migrate.i])
            IN  IF outcome = "check"
                  THEN migrate' = [migrate EXCEPT !.pc = "idle", !.err = "check"]
                ELSE IF isMigrationApplied(migrate, version)
                  THEN /\ outcome = "commit"
                       /\ migrate' = [migrate EXCEPT !.i = @ + 1]
                ELSE migrate' = applyMigration(migrate, version, outcome)
    /\ UNCHANGED <<branchVars, cowVars, sessVars, proxyVars, taskVars>>

\* a fresh upstream
InitMigrate ==
    /\ impl = "store"
    /\ branches = [n \in {MainName} |-> MainBranch]
    /\ schemas = {}
    /\ now = 0
    /\ err = "none"
    /\ NoTraffic
    /\ NewSession
    /\ StartedProxy
    /\ migrate = [release |-> 1, pc |-> "idle", entries |-> <<>>, i |-> 1,
                  exists |-> FALSE, schema_version |-> {}, executed |-> <<>>,
                  err |-> "none"]
    /\ NoTasks

NextMigrate ==
    \/ \E release \in 1..MaxMigrations : StoreInit(release)
    \/ \E outcome \in MigrateOutcomes : runMigrations(outcome)

SpecMigrate == InitMigrate /\ [][NextMigrate]_vars

\* C25: across any number of initializations the migrations are applied in
\* strictly increasing order of their version, each at most once, and every
\* applied version is recorded in schema_version.
Thm_C25_MigrationsInOrderOnce ==
    /\ \A i, j \in DOMAIN migrate.executed :
          i < j => migrate.executed[i] < migrate.executed[j]
    /\ \A i \in DOMAIN migrate.executed :
          migrate.exists /\ migrate.executed[i] \in migrate.schema_version

\* a later initialization skips what an earlier one applied, after every
\* migration of the newest release has been applied
Witness_C25 ==
    /\ Len(migrate.executed) = MaxMigrations
    /\ migrate.pc = "loop"
    /\ migrate.i > 1
    /\ migrate.i <= Len(migrate.entries)

(***************************************************************************)
(* SpecRace: Engine.CreateBranch and Engine.DeleteBranch as two requests   *)
(* of the API run them at the same time.  Neither holds a lock or opens a  *)
(* transaction: each statement is sent to the pool on its own, so the      *)
(* statements of the two calls interleave in any order.                    *)
(***************************************************************************)
\* a call that has not started
NoCall == [pc |-> "idle", name |-> EmptyName, parent |-> EmptyName, err |-> "none"]

\* the names the two requests carry
RaceCreateNames == {NameHyphen, NameUnderscore, NameBadStart}
RaceParents == {MainName, NameHyphen, NameUnderscore}
RaceDeleteNames == {MainName, NameHyphen, NameUnderscore}

Returned(call, e) == [call EXCEPT !.pc = "done", !.err = e]

\* Engine.CreateBranch is called: ValidateBranchName
CreateCall(name, parent) ==
    /\ tasks.create.pc \in {"idle", "done"}
    /\ LET call == [pc |-> "getParent", name |-> name, parent |-> parent, err |-> "none"]
       IN  tasks' = [tasks EXCEPT !.create =
                        IF ValidateBranchName(name) THEN call
                        ELSE Returned(call, "InvalidBranchName")]
    /\ UNCHANGED <<branchVars, cowVars, sessVars, proxyVars, storeVars, catalog>>

\* e.store.GetBranch(ctx, parent)
CreateGetParent ==
    /\ tasks.create.pc = "getParent"
    /\ tasks' = [tasks EXCEPT !.create =
                    IF tasks.create.parent \in DOMAIN branches
                      THEN [@ EXCEPT !.pc = "insert"]
                      ELSE Returned(@, "parent not found")]
    /\ UNCHANGED <<branchVars, cowVars, sessVars, proxyVars, storeVars, catalog>>

\* e.store.CreateBranch: the INSERT fails on the primary key, and on the
\* foreign key when the parent row is gone by now
CreateInsert ==
    /\ tasks.create.pc = "insert"
    /\ LET call == tasks.create
       IN  IF call.name \in DOMAIN branches \/ call.parent \notin DOMAIN branches
             THEN /\ tasks' = [tasks EXCEPT !.create = Returned(@, "create branch metadata")]
                  /\ UNCHANGED branches
             ELSE /\ branches' = Put(branches, call.name, StoreBranchRow(call.parent, {}, now))
                  /\ tasks' = [tasks EXCEPT !.create.pc = "schema"]
    /\ UNCHANGED <<cowVars, sessVars, proxyVars, storeVars, catalog, impl, schemas, now, err>>

\* e.store.CreateBranchSchema, and the return
CreateSchema ==
    /\ tasks.create.pc = "schema"
    /\ schemas' = CreateBranchSchema(schemas, tasks.create.name)
    /\ tasks' = [tasks EXCEPT !.create = Returned(@, "ok")]
    /\ UNCHANGED <<cowVars, sessVars, proxyVars, storeVars, catalog, impl, branches, now, err>>

\* Engine.DeleteBranch is called
DeleteCall(name) ==
    /\ tasks.delete.pc \in {"idle", "done"}
    /\ tasks' = [tasks EXCEPT !.delete =
                    [pc |-> "get", name |-> name, parent |-> EmptyName, err |-> "none"]]
    /\ UNCHANGED <<branchVars, cowVars, sessVars, proxyVars, storeVars, catalog>>

\* e.store.GetBranch(ctx, name) and the test of branch.Pinned
DeleteGet ==
    /\ tasks.delete.pc = "get"
    /\ LET name == tasks.delete.name
       IN  tasks' = [tasks EXCEPT !.delete =
                        IF name \notin DOMAIN branches THEN Returned(@, "get branch")
                        ELSE IF branches[name].pinned THEN Returned(@, "branch is pinned")
                        ELSE [@ EXCEPT !.pc = "list"]]
    /\ UNCHANGED <<branchVars, cowVars, sessVars, proxyVars, storeVars, catalog>>

\* e.store.ListBranches and the search for a child
DeleteList ==
    /\ tasks.delete.pc = "list"
    /\ tasks' = [tasks EXCEPT !.delete =
                    IF HasChildren(branches, tasks.delete.name)
                      THEN Returned(@, "branch has children")
                      ELSE [@ EXCEPT !.pc = "drop"]]
    /\ UNCHANGED <<branchVars, cowVars, sessVars, proxyVars, storeVars, catalog>>

\* e.store.DropBranchSchema
DeleteDrop ==
    /\ tasks.delete.pc = "drop"
    /\ schemas' = DropBranchSchema(schemas, tasks.delete.name)
    /\ tasks' = [tasks EXCEPT !.delete.pc = "delete"]
    /\ UNCHANGED <<cowVars, sessVars, proxyVars, storeVars, catalog, impl, branches, now, err>>

\* e.store.DeleteBranch, and the return: no row affected is an error
DeleteRow ==
    /\ tasks.delete.pc = "delete"
    /\ IF tasks.delete.name \in DOMAIN branches
         THEN /\ branches' = StoreDeleteBranch(branches, tasks.delete.name)
              /\ tasks' = [tasks EXCEPT !.delete = Returned(@, "ok")]
         ELSE /\ tasks' = [tasks EXCEPT !.delete = Returned(@, "branch not found")]
              /\ UNCHANGED branches
    /\ UNCHANGED <<cowVars, sessVars, proxyVars, storeVars, catalog, impl, schemas, now, err>>

InitRace ==
    /\ impl = "store"
    /\ branches = [n \in {MainName} |-> MainBranch]
    /\ schemas = {}
    /\ now = 0
    /\ err = "none"
    /\ NoTraffic
    /\ NewSession
    /\ StartedProxy
    /\ Migrated
    /\ tasks = [create |-> NoCall, delete |-> NoCall]
    /\ catalog = <<>>

NextRace ==
    \/ \E name \in RaceCreateNames, parent \in RaceParents : CreateCall(name, parent)
    \/ CreateGetParent
    \/ CreateInsert
    \/ CreateSchema
    \/ \E name \in RaceDeleteNames : DeleteCall(name)
    \/ DeleteGet
    \/ DeleteList
    \/ DeleteDrop
    \/ DeleteRow

SpecRace == InitRace /\ [][NextRace]_vars

\* C35: a create_branch(child, parent = P) and a delete_branch(P) never both
\* succeed with the child left in the store and P absent from it.
CE_C35_CreateDeleteSerial ==
    ~ /\ tasks.create.pc = "done" /\ tasks.create.err = "ok"
      /\ tasks.delete.pc = "done" /\ tasks.delete.err = "ok"
      /\ tasks.delete.name = tasks.create.parent
      /\ tasks.create.name \in DOMAIN branches
      /\ tasks.create.parent \notin DOMAIN branches

(***************************************************************************)
(* SpecEnsure: EnsureOverlayTable, statement by statement, as the sessions *)
(* of one branch run it at the same time.  Every statement goes to the     *)
(* pool on its own; the engine holds no lock around the call.              *)
(***************************************************************************)
EnsureSessions == {1, 2}

\* the source tables the writes name: "log" has no primary key
EnsureTables == {"users", "log"}
SourcePKs(tableName) == IF tableName = "users" THEN {"id"} ELSE {}

\* a shadow table as the upstream's catalog has it
NoShadow == [exists |-> FALSE, tombstones |-> 0, pks |-> 0]

NoEnsure == [pc |-> "idle", table |-> "users", hasPK |-> FALSE, err |-> "none"]

EnsureStep(s, call) == tasks' = [tasks EXCEPT ![s] = call]

\* ensureOverlays calls EnsureOverlayTable for a table of the write
EnsureCall(s, tableName) ==
    /\ tasks[s].pc \in {"idle", "done"}
    /\ EnsureStep(s, [pc |-> "exists", table |-> tableName, hasPK |-> FALSE, err |-> "none"])
    /\ UNCHANGED <<branchVars, cowVars, sessVars, proxyVars, storeVars, catalog>>

\* TableExists(branchSchema, tableName): an existing overlay returns nil
EnsureExists(s) ==
    /\ tasks[s].pc = "exists"
    /\ EnsureStep(s, IF catalog[tasks[s].table].exists
                       THEN Returned(tasks[s], "ok")
                       ELSE [tasks[s] EXCEPT !.pc = "pks"])
    /\ UNCHANGED <<branchVars, cowVars, sessVars, proxyVars, storeVars, catalog>>

\* GetTablePrimaryKeys of the source table: none is an error
EnsureGetPKs(s) ==
    /\ tasks[s].pc = "pks"
    /\ EnsureStep(s, IF SourcePKs(tasks[s].table) = {}
                       THEN Returned(tasks[s], "no primary key")
                       ELSE [tasks[s] EXCEPT !.pc = "create"])
    /\ UNCHANGED <<branchVars, cowVars, sessVars, proxyVars, storeVars, catalog>>

\* CREATE TABLE IF NOT EXISTS ... (LIKE ... INCLUDING DEFAULTS INCLUDING
\* CONSTRAINTS): the copy carries no primary key
EnsureCreate(s) ==
    /\ tasks[s].pc = "create"
    /\ catalog' = [catalog EXCEPT ![tasks[s].table].exists = TRUE]
    /\ EnsureStep(s, [tasks[s] EXCEPT !.pc = "tombstone"])
    /\ UNCHANGED <<branchVars, cowVars, sessVars, proxyVars, storeVars>>

\* ALTER TABLE ... ADD COLUMN IF NOT EXISTS _rift_tombstone
EnsureTombstone(s) ==
    /\ tasks[s].pc = "tombstone"
    /\ catalog' = [catalog EXCEPT ![tasks[s].table].tombstones = 1]
    /\ EnsureStep(s, [tasks[s] EXCEPT !.pc = "checkPK"])
    /\ UNCHANGED <<branchVars, cowVars, sessVars, proxyVars, storeVars>>

\* SELECT EXISTS (... contype = 'p') into hasPK
EnsureCheckPK(s) ==
    /\ tasks[s].pc = "checkPK"
    /\ EnsureStep(s, [tasks[s] EXCEPT !.pc = "addPK",
                                      !.hasPK = catalog[tasks[s].table].pks > 0])
    /\ UNCHANGED <<branchVars, cowVars, sessVars, proxyVars, storeVars, catalog>>

\* if !hasPK: ALTER TABLE ... ADD PRIMARY KEY, which the upstream rejects on
\* a table that has one; then the return
EnsureAddPK(s) ==
    /\ tasks[s].pc = "addPK"
    /\ IF tasks[s].hasPK
         THEN EnsureStep(s, Returned(tasks[s], "ok")) /\ UNCHANGED catalog
       ELSE IF catalog[tasks[s].table].pks > 0
         THEN EnsureStep(s, Returned(tasks[s], "add overlay PK")) /\ UNCHANGED catalog
       ELSE /\ catalog' = [catalog EXCEPT ![tasks[s].table].pks = 1]
            /\ EnsureStep(s, Returned(tasks[s], "ok"))
    /\ UNCHANGED <<branchVars, cowVars, sessVars, proxyVars, storeVars>>

InitEnsure ==
    /\ impl = "store"
    /\ branches = [n \in {MainName} |-> MainBranch]
    /\ schemas = {}
    /\ now = 0
    /\ err = "none"
    /\ NoTraffic
    /\ NewSession
    /\ StartedProxy
    /\ Migrated
    /\ tasks = [s \in EnsureSessions |-> NoEnsure]
    /\ catalog = [t \in EnsureTables |-> NoShadow]

NextEnsure ==
    \E s \in EnsureSessions :
       \/ \E tableName \in EnsureTables : EnsureCall(s, tableName)
       \/ EnsureExists(s)
       \/ EnsureGetPKs(s)
       \/ EnsureCreate(s)
       \/ EnsureTombstone(s)
       \/ EnsureCheckPK(s)
       \/ EnsureAddPK(s)

SpecEnsure == InitEnsure /\ [][NextEnsure]_vars

\* C36: when the first writes of two sessions to one source table (one that
\* has a primary key) run EnsureOverlayTable at the same time, both calls
\* return success and the shadow table has one tombstone column and one
\* primary key.
CE_C36_ConcurrentEnsureSucceeds ==
    \A s \in EnsureSessions :
       (tasks[s].pc = "done" /\ SourcePKs(tasks[s].table) # {})
         => /\ tasks[s].err = "ok"
            /\ (\A o \in EnsureSessions : tasks[o].pc \in {"idle", "done"})
                 => /\ catalog[tasks[s].table].tombstones = 1
                    /\ catalog[tasks[s].table].pks = 1

(***************************************************************************)
(* SpecProxyLive: the proxy with the progress its goroutines make.  A      *)
(* goroutine that can run does run: the accept loop, the steps of          *)
(* handleConnection that wait for nobody but the hook and the upstream     *)
(* (DialTimeout bounds the dial), and Stop itself.  The handshake reads    *)
(* from the client with no deadline and no context, so it proceeds only    *)
(* when the client sends or closes: nothing makes it fair.  A splice ends  *)
(* once Stop has closed its sockets, or when it starts under the           *)
(* cancelled context.                                                      *)
(***************************************************************************)
ProxyFairness ==
    /\ WF_vars(AcceptClosed)
    /\ WF_vars(CheckMaxConnections)
    /\ WF_vars(StopCloseConnections)
    /\ WF_vars(StopWait)
    /\ \A c \in Clients :
          /\ WF_vars(StartConnection(c))
          /\ WF_vars(OnConnect(c))
          /\ WF_vars(\E dialOk \in BOOLEAN : connectUpstream(c, dialOk))
          /\ WF_vars(stopPc \in {"waiting", "returned"} /\ proxyTraffic(c))

SpecProxyLive == InitProxy /\ [][NextProxy]_vars /\ ProxyFairness

\* C37: once Stop is called, every per-connection task terminates, whatever
\* its phase, so Stop returns.
CE_C37_StopReturns == (stopPc = "closing") ~> (stopPc = "returned")

(***************************************************************************)
(* SpecSplice: proxyTraffic for one connection: the two copy goroutines,   *)
(* the goroutine that waits for them, and the two peers.  A goroutine that *)
(* can run does run; a read returns when its peer has sent or closed, when *)
(* the socket is closed on this side, or at its deadline if one is set.    *)
(* The peers send and close as they please.                                *)
(***************************************************************************)
OpenSocket == [peer |-> "open", sock |-> "open", pending |-> FALSE]

\* proxyTraffic has started the two goroutines and waits on errCh
NewSplice ==
    [c2u |-> "select", u2c |-> "select", main |-> "wait1", ctx |-> "live",
     errCh |-> 0, client |-> OpenSocket, upstream |-> OpenSocket]

\* the peer of a socket closes its side, or sends
PeerCloses(side) ==
    /\ tasks[side].peer = "open"
    /\ tasks' = [tasks EXCEPT ![side].peer = "closed"]
    /\ UNCHANGED <<branchVars, cowVars, sessVars, proxyVars, storeVars, catalog>>

PeerSends(side) ==
    /\ tasks[side].peer = "open" /\ ~tasks[side].pending
    /\ tasks' = [tasks EXCEPT ![side].pending = TRUE]
    /\ UNCHANGED <<branchVars, cowVars, sessVars, proxyVars, storeVars, catalog>>

\* a Read on the socket returns
CanRead(sock) == sock.pending \/ sock.peer = "closed" \/ sock.sock = "closed"

\* the goroutine sends its result on errCh and ends
CopyDone(dir) == [tasks EXCEPT ![dir] = "done", !.errCh = @ + 1]

\* the top of the loop of a copy: select on ctx.Done()
CopySelect(dir) ==
    /\ tasks[dir] = "select"
    /\ tasks' = IF tasks.ctx = "cancelled" THEN CopyDone(dir)
                ELSE [tasks EXCEPT ![dir] = "read"]
    /\ UNCHANGED <<branchVars, cowVars, sessVars, proxyVars, storeVars, catalog>>

\* Read(buf) on the socket the copy reads from
CopyRead(dir, from) ==
    /\ tasks[dir] = "read"
    /\ CanRead(tasks[from])
    /\ tasks' = IF tasks[from].sock = "open" /\ tasks[from].pending
                  THEN [tasks EXCEPT ![dir] = "write", ![from].pending = FALSE]
                ELSE CopyDone(dir)
    /\ UNCHANGED <<branchVars, cowVars, sessVars, proxyVars, storeVars, catalog>>

\* Write(buf[:n]) on the socket the copy writes to
CopyWrite(dir, to) ==
    /\ tasks[dir] = "write"
    /\ tasks' = IF tasks[to].sock = "open" /\ tasks[to].peer = "open"
                  THEN [tasks EXCEPT ![dir] = "select"]
                ELSE CopyDone(dir)
    /\ UNCHANGED <<branchVars, cowVars, sessVars, proxyVars, storeVars, catalog>>

\* copyClientToUpstream: the read deadline, IdleTimeout from the top of the
\* loop, passes with nothing read
copyClientToUpstream_Deadline ==
    /\ tasks.c2u = "read"
    /\ tasks' = CopyDone("c2u")
    /\ UNCHANGED <<branchVars, cowVars, sessVars, proxyVars, storeVars, catalog>>

copyClientToUpstream ==
    \/ CopySelect("c2u")
    \/ CopyRead("c2u", "client")
    \/ CopyWrite("c2u", "upstream")
    \/ copyClientToUpstream_Deadline

\* copyUpstreamToClient: the same loop, with no deadline on the read
copyUpstreamToClient ==
    \/ CopySelect("u2c")
    \/ CopyRead("u2c", "upstream")
    \/ CopyWrite("u2c", "client")

\* proxyTraffic: the first <-errCh, then cancel()
SpliceFirstDone ==
    /\ tasks.main = "wait1" /\ tasks.errCh > 0
    /\ tasks' = [tasks EXCEPT !.main = "wait2", !.errCh = @ - 1, !.ctx = "cancelled"]
    /\ UNCHANGED <<branchVars, cowVars, sessVars, proxyVars, storeVars, catalog>>

\* proxyTraffic: the second <-errCh; it returns and the deferred functions
\* of handleConnection close the two sockets
SpliceReturn ==
    /\ tasks.main = "wait2" /\ tasks.errCh > 0
    /\ tasks' = [tasks EXCEPT !.main = "returned", !.errCh = @ - 1,
                              !.client.sock = "closed", !.upstream.sock = "closed"]
    /\ UNCHANGED <<branchVars, cowVars, sessVars, proxyVars, storeVars, catalog>>

InitSplice ==
    /\ impl = "store"
    /\ branches = [n \in {MainName} |-> MainBranch]
    /\ schemas = {}
    /\ now = 0
    /\ err = "none"
    /\ NoTraffic
    /\ NewSession
    /\ StartedProxy
    /\ Migrated
    /\ tasks = NewSplice
    /\ catalog = <<>>

NextSplice ==
    \/ \E side \in {"client", "upstream"} : PeerCloses(side)
    \/ \E side \in {"client", "upstream"} : PeerSends(side)
    \/ copyClientToUpstream
    \/ copyUpstreamToClient
    \/ SpliceFirstDone
    \/ SpliceReturn

SpliceFairness ==
    /\ WF_vars(copyClientToUpstream)
    /\ WF_vars(copyUpstreamToClient)
    /\ WF_vars(SpliceFirstDone)
    /\ WF_vars(SpliceReturn)

SpecSplice == InitSplice /\ [][NextSplice]_vars /\ SpliceFairness

SpliceClosed ==
    /\ tasks.c2u = "done" /\ tasks.u2c = "done"
    /\ tasks.client.sock = "closed" /\ tasks.upstream.sock = "closed"

\* C38: when the client or the upstream closes its side of a spliced
\* connection, both copies stop and both sockets are closed, with no more
\* data needed from the other side.
CE_C38_PeerCloseEndsSplice ==
    (tasks.client.peer = "closed" \/ tasks.upstream.peer = "closed") ~> SpliceClosed

(***************************************************************************)
(* SpecBind: handleBind reading the payload of a Bind message, byte by     *)
(* byte as pgwire.Buffer does.  The payload is taken from the parameter    *)
(* count on: the names are read, the statement is found and the message    *)
(* carries no format codes.  No function on the path recovers a panic, so  *)
(* a panic in the goroutine of the session ends the process.               *)
(***************************************************************************)
MaxPayload == 7

\* the bytes a payload is made of: they spell 0, 1, -1 and -2
Bytes == {0, 1, 254, 255}
Payloads == UNION {[1..n -> Bytes] : n \in 0..MaxPayload}

\* int8(b), the top byte of a signed integer
SignedByte(b) == IF b >= 128 THEN b - 256 ELSE b

\* Buffer.ReadInt16 at pos: big-endian, signed
ReadInt16(buf, pos) ==
    IF pos + 2 > Len(buf) THEN [ok |-> FALSE, v |-> 0, pos |-> pos]
    ELSE [ok |-> TRUE, v |-> SignedByte(buf[pos + 1]) * 256 + buf[pos + 2], pos |-> pos + 2]

\* Buffer.ReadInt32 at pos: big-endian, signed
ReadInt32(buf, pos) ==
    IF pos + 4 > Len(buf) THEN [ok |-> FALSE, v |-> 0, pos |-> pos]
    ELSE [ok |-> TRUE,
          v |-> SignedByte(buf[pos + 1]) * 16777216 + buf[pos + 2] * 65536
                  + buf[pos + 3] * 256 + buf[pos + 4],
          pos |-> pos + 4]

\* Buffer.ReadBytes(n) at pos: the test pos+n > len lets a negative n pass,
\* and b.buf[pos : pos+n] then panics (slice bounds out of range)
ReadBytes(buf, pos, n) ==
    IF pos + n > Len(buf) THEN [status |-> "eof", pos |-> pos]
    ELSE IF n < 0 THEN [status |-> "panic", pos |-> pos]
    ELSE [status |-> "ok", pos |-> pos + n]

\* handleBind: the loop over the parameter values
RECURSIVE ReadParams(_, _, _, _)
ReadParams(buf, pos, i, numParams) ==
    IF i >= numParams THEN "BindComplete"
    ELSE LET length == ReadInt32(buf, pos)
         IN  IF ~length.ok THEN "error"
             ELSE IF length.v = -1 THEN ReadParams(buf, length.pos, i + 1, numParams)
             ELSE LET val == ReadBytes(buf, length.pos, length.v)
                  IN  IF val.status = "ok"
                        THEN ReadParams(buf, val.pos, i + 1, numParams)
                      ELSE IF val.status = "eof" THEN "error"
                      ELSE "panic"

\* handleBind from numParams on: make([][]byte, numParams) panics on a
\* negative length
DecodeBind(buf) ==
    LET numParams == ReadInt16(buf, 0)
    IN  IF ~numParams.ok THEN "error"
        ELSE IF numParams.v < 0 THEN "panic"
        ELSE ReadParams(buf, numParams.pos, 0, numParams.v)

\* the session receives the Bind: BindComplete, or an error returned to
\* HandleMessages which ends the session, or a panic
BindReceived ==
    /\ tasks.outcome = "pending"
    /\ tasks' = [tasks EXCEPT !.outcome = DecodeBind(tasks.payload)]
    /\ UNCHANGED <<branchVars, cowVars, sessVars, proxyVars, storeVars, catalog>>

InitBind ==
    /\ impl = "store"
    /\ branches = [n \in {MainName} |-> MainBranch]
    /\ schemas = {}
    /\ now = 0
    /\ err = "none"
    /\ NoTraffic
    /\ NewSession
    /\ StartedProxy
    /\ Migrated
    /\ \E payload \in Payloads : tasks = [payload |-> payload, outcome |-> "pending"]
    /\ catalog = <<>>

NextBind == BindReceived

SpecBind == InitBind /\ [][NextBind]_vars

\* C39: a malformed Bind (a negative parameter count, a parameter length
\* below -1 or one that reaches beyond the payload) is a protocol error that
\* ends its session only: it never crashes the process.
CE_C39_BindNeverPanics == tasks.outcome # "panic"


====
